---- MODULE Spec2Model ----
(***************************************************************************)
(* Verification model of portable-brain: the Main Orchestrator's bounded   *)
(* retrieve -> execute -> re-retrieve loop, the Memory Retriever's caches  *)
(* in front of the embedding provider, the vector store and the people     *)
(* table, and the Observation Tracker: its polling loop, its three         *)
(* histories and the start/stop requests that run beside it.               *)
(***************************************************************************)
EXTENDS Integers, Naturals, Sequences, FiniteSets, TLC

VARIABLES
  \* ---- MainOrchestrator.run (one request) ----
  pc,                    \* position of run: idle, initial_retrieval, execute, re_retrieve, returned, raised
  max_iterations,        \* argument of run
  iteration,             \* loop variable of `for iteration in range(max_iterations)`
  all_previous_queries,  \* cumulative retrieval log (list of RetrievalLogEntry)
  context,               \* context string handed to the execution agent
  retrieval_result,      \* _parse_retrieval(retrieval_raw): None or the parsed output
  execution_result,      \* _parse_execution(execution_raw), Unbound before the first attempt
  retrieval_state,       \* self.retrieval_state, Unbound before the first failed attempt
  run_result,            \* value returned by run, Unbound while running
  run_error,             \* exception that left run, None while none
  execCalls,             \* number of ExecutionAgent.execute_command invocations of this run
  retrCalls,             \* number of RetrievalAgent.test_retrieve invocations of this run
  lastExecRaw,           \* what the latest execute_command invocation produced
  execution_agent_max_turns,  \* argument of run
  retrieval_agent_max_turns,  \* argument of run
  retrieval_turns,       \* max_turns the latest test_retrieve invocation ran with, 0 before
  execution_turns,       \* max_turns the latest execute_command invocation ran with, 0 before
  \* ---- MemoryRetriever (process-wide) and its callers ----
  exact_cache,           \* self._exact_cache: OrderedDict, least recently used first
  semantic_cache,        \* self._semantic_cache: deque of (query_vector, results), oldest first
  call,                  \* per caller: the find_semantically_similar call in progress
  lastCall,              \* the call that completed most recently before the current one
  numCalls,              \* number of find_semantically_similar calls started
  \* ---- MemoryRetriever.find_person_by_name ----
  person_name_cache,     \* self._person_name_cache: OrderedDict, least recently used first
  pcall,                 \* per caller: the find_person_by_name call in progress
  numPersonCalls,        \* number of find_person_by_name calls started
  lastPersonResult,      \* per normalised name: what the latest completed lookup returned
  \* ---- ObservationTracker, its loop tasks and the lifecycle request handlers ----
  running,               \* self.running
  tracking_task,         \* self._tracking_task: 0 for None, else the id of a loop task
  task,                  \* per loop task: position in start_tracking and its locals
  recent_state_changes,  \* self.recent_state_changes: deque(maxlen=10), oldest first
  inferred_actions,      \* self.inferred_actions: deque(maxlen=50), oldest first
  observations,          \* self.observations: deque(maxlen=20), oldest first
  action_counter,        \* self.action_counter
  last_state,            \* DroidRunClient.last_state
  text_embeddings,       \* rows of the text_embeddings table (the vector store)
  nextObservationId,     \* the next fresh uuid4 handed to an observation
  stopper,               \* per request handler: position in stop_tracking
  numPolls,              \* number of device polls completed
  numStarts,             \* number of start_background_tracking calls
  numStops,              \* number of stop_tracking calls
  lastStart,             \* outcome of the latest start_background_tracking call
  \* ---- AsyncGenAITypedClient.atool_call (one call) ----
  atool_pc,              \* position of atool_call: idle, generate, execute_tool, returned, raised
  max_turns,             \* argument of atool_call
  response_model,        \* whether a response_model was passed
  turn,                  \* loop variable `_turn`
  contents,              \* the conversation history sent to the model
  tool_call,             \* the function call of the latest response, or the no-call record
  atool_result,          \* value returned by atool_call, Unbound while running
  atool_error,           \* exception that left atool_call, None while none
  numGenerate,           \* number of generate_content invocations of this call
  numExecutorCalls,      \* number of tool executor invocations of this call
  \* ---- DroidRunClient._classify_change (calls made one after the other) ----
  classified,            \* the latest call: its two states and the value returned
  last_classified,       \* the call before it
  \* ---- ObservationInferencer.update_observation over AsyncGenAITypedClient.acreate ----
  inf_pc,                \* position of the call: idle, generate, retry_wait, returned, raised
  attempt_count,         \* acreate's local attempt_count
  last_exception,        \* acreate's local last_exception, None while none
  updated_observation_response,  \* what acreate returned, the no-response record before
  update_result,         \* value returned by update_observation (None or an observation)
  update_error,          \* exception that left update_observation, None while none
  nextUuid,              \* the next fresh uuid4 handed out by update_observation
  numUpdateCalls,        \* number of update_observation calls started
  \* ---- arguments of the find_semantically_similar call in progress ----
  call_shape             \* per caller: limit and distance_metric of the call

orchVars == <<pc, max_iterations, iteration, all_previous_queries, context,
              retrieval_result, execution_result, retrieval_state, run_result,
              run_error, execCalls, retrCalls, lastExecRaw,
              execution_agent_max_turns, retrieval_agent_max_turns,
              retrieval_turns, execution_turns>>

retrVars == <<exact_cache, semantic_cache, call, lastCall, numCalls>>

nameVars == <<person_name_cache, pcall, numPersonCalls, lastPersonResult>>

trackVars == <<running, tracking_task, task, recent_state_changes, inferred_actions,
               observations, action_counter, last_state, text_embeddings,
               nextObservationId, stopper, numPolls, numStarts, numStops, lastStart>>

toolVars == <<atool_pc, max_turns, response_model, turn, contents, tool_call,
              atool_result, atool_error, numGenerate, numExecutorCalls>>

clsVars == <<classified, last_classified>>

infVars == <<inf_pc, attempt_count, last_exception, updated_observation_response,
             update_result, update_error, nextUuid, numUpdateCalls>>

shapeVars == <<call_shape>>

extVars == <<infVars, shapeVars>>

vars == <<orchVars, retrVars, nameVars, trackVars, toolVars, clsVars, extVars>>

\* Python's None for string-valued fields, and for object-valued names
None == "None"
NoneObj == [kind |-> "None"]
\* a local name that has not been assigned yet
Unbound == [kind |-> "Unbound"]

\* ---- bounds of the model ----
MaxIterations == 3
MaxLogLen == 2
MaxCalls == 3
MaxPersonCalls == 3
MaxPolls == 3
MaxStarts == 3
MaxStops == 2
MaxTrackerStarts == 2
MaxTrackerStops == 1
MaxPollsLong == 52
MaxTurns == 3
MaxLongCalls == 52
LongVectorDim == 11
MaxUpdateCalls == 4

LogEntries == {"e1", "e2"}

\* default of every max_turns parameter (run's two budgets, test_retrieve,
\* execute_command, atool_call), and the budgets a caller of run passes
DefaultMaxTurns == 5
TurnBudgets == {2, DefaultMaxTurns}

RECURSIVE SeqsUpTo(_, _)
SeqsUpTo(S, n) ==
  IF n = 0 THEN {<<>>}
  ELSE LET shorter == SeqsUpTo(S, n - 1)
       IN shorter \cup {Append(s, x) : s \in {t \in shorter : Len(t) = n - 1}, x \in S}

IsPrefix(s, t) == Len(s) <= Len(t) /\ SubSeq(t, 1, Len(s)) = s

\* ---------------------------------------------------------------------
\* LLM tool-call loop outcomes as seen by the agents' callers
\* ---------------------------------------------------------------------

\* atool_call leaves by raising: max_turns exhausted, or an unknown tool requested
AtoolCallErrors ==
  { [kind |-> "raise", error |-> "RuntimeError: exhausted max_turns"],
    [kind |-> "raise", error |-> "ValueError: unknown tool"] }

\* atool_call returns the raw text when the final text fails validation
RawText == [kind |-> "str", text |-> "raw text"]

\* final text validated as ExecutionLLMOutput
ExecutionLLMOutput ==
  [kind : {"ExecutionLLMOutput"}, success : BOOLEAN, result_summary : {"summary"},
   failure_reason : {None, "reason"}, missing_information : {None, "info"}]

\* final text validated as MemoryRetrievalLLMOutput
MemoryRetrievalLLMOutput ==
  [kind : {"MemoryRetrievalLLMOutput"}, context_summary : {"summary"},
   retrieval_log : SeqsUpTo(LogEntries, MaxLogLen)]

\* everything ExecutionAgent.execute_command can produce
ExecuteCommandOutcomes == ExecutionLLMOutput \cup {RawText} \cup AtoolCallErrors

\* everything RetrievalAgent.test_retrieve can produce
TestRetrieveOutcomes == MemoryRetrievalLLMOutput \cup {RawText} \cup AtoolCallErrors

\* ---------------------------------------------------------------------
\* MainOrchestrator helpers
\* ---------------------------------------------------------------------

\* _parse_retrieval: the parsed output, or None when raw text came back
ParseRetrieval(raw) ==
  IF raw.kind = "MemoryRetrievalLLMOutput" THEN raw ELSE NoneObj

ParseExecutionWrapsAsSuccess(raw) ==
  IF raw.kind = "ExecutionLLMOutput" THEN raw
  ELSE [kind |-> "ExecutionLLMOutput", success |-> TRUE, result_summary |-> raw.text,
        failure_reason |-> "Execution agent returned unstructured response",
        missing_information |-> None]

\* _parse_execution: raw text is wrapped as a failed ExecutionLLMOutput
ParseExecution(raw) ==
  IF raw.kind = "ExecutionLLMOutput" THEN raw
  ELSE [kind |-> "ExecutionLLMOutput", success |-> FALSE, result_summary |-> raw.text,
        failure_reason |-> "Execution agent returned unstructured response",
        missing_information |-> None]

ExtendLogReplaces(all, result) ==
  IF result.kind # "None" THEN result.retrieval_log ELSE all

\* `if retrieval_result is not None: all_previous_queries.extend(retrieval_result.retrieval_log)`
ExtendLog(all, result) ==
  IF result.kind # "None" THEN all \o result.retrieval_log ELSE all

\* `context = retrieval_result.context_summary` or `context = str(retrieval_raw)`
ContextOf(raw, result) ==
  IF result.kind # "None" THEN result.context_summary ELSE raw.text

LoopContinuesOffByOne(i, k) == i <= k

\* `for iteration in range(max_iterations)`: the body runs for iteration i iff i < k
LoopContinues(i, k) == i < k

CheckSuccessIgnored(result) == FALSE

\* `if execution_result.success: return execution_result`
CheckSuccess(result) == result.success

\* `x or default`: None (and the empty string) fall back to the default
OrDefault(x, default) == IF x = None \/ x = "" THEN default ELSE x

\* RetrievalState(iteration=iteration + 1, previous_queries=all_previous_queries, ...)
RetrievalState(i, all, result) ==
  [iteration |-> i + 1,
   previous_queries |-> all,
   execution_failure_reason |-> OrDefault(result.failure_reason, "Unknown failure"),
   missing_information |-> OrDefault(result.missing_information, "Unknown")]

\* ---------------------------------------------------------------------
\* MainOrchestrator.run
\* ---------------------------------------------------------------------

OrchInit ==
  /\ pc = "idle"
  /\ max_iterations = 0
  /\ iteration = 0
  /\ all_previous_queries = <<>>
  /\ context = None
  /\ retrieval_result = NoneObj
  /\ execution_result = Unbound
  /\ retrieval_state = Unbound
  /\ run_result = Unbound
  /\ run_error = None
  /\ execCalls = 0
  /\ retrCalls = 0
  /\ lastExecRaw = NoneObj
  /\ execution_agent_max_turns = DefaultMaxTurns
  /\ retrieval_agent_max_turns = DefaultMaxTurns
  /\ retrieval_turns = 0
  /\ execution_turns = 0

\* run(user_request, max_iterations=k, execution_agent_max_turns=e,
\* retrieval_agent_max_turns=r) up to the first await
Run(k, e, r) ==
  /\ pc = "idle"
  /\ pc' = "initial_retrieval"
  /\ max_iterations' = k
  /\ execution_agent_max_turns' = e
  /\ retrieval_agent_max_turns' = r
  /\ all_previous_queries' = <<>>
  /\ UNCHANGED <<iteration, context, retrieval_result, execution_result,
                 retrieval_state, run_result, run_error, execCalls, retrCalls,
                 lastExecRaw, retrieval_turns, execution_turns>>

\* the head of the for loop, evaluated when iteration i is about to start:
\* either the body runs (next await is execute_command) or the loop is over and
\* `return execution_result` runs, which fails when the name was never bound
LoopHead(i, result) ==
  IF LoopContinues(i, max_iterations)
  THEN /\ pc' = "execute"
       /\ iteration' = i
       /\ UNCHANGED <<run_result, run_error>>
  ELSE /\ iteration' = iteration
       /\ IF result.kind = "Unbound"
          THEN /\ pc' = "raised"
               /\ run_error' = "UnboundLocalError: execution_result"
               /\ UNCHANGED run_result
          ELSE /\ pc' = "returned"
               /\ run_result' = result
               /\ UNCHANGED run_error

\* 1) initial retrieval: await test_retrieve(user_request), parse, enter the loop;
\* no max_turns is passed, so test_retrieve runs with its own default
InitialRetrieval(raw) ==
  /\ pc = "initial_retrieval"
  /\ retrCalls' = retrCalls + 1
  /\ retrieval_turns' = DefaultMaxTurns
  /\ IF raw.kind = "raise"
     THEN /\ pc' = "raised"
          /\ run_error' = raw.error
          /\ UNCHANGED <<iteration, all_previous_queries, context, retrieval_result,
                         run_result>>
     ELSE /\ retrieval_result' = ParseRetrieval(raw)
          /\ all_previous_queries' = ExtendLog(all_previous_queries, retrieval_result')
          /\ context' = ContextOf(raw, retrieval_result')
          /\ LoopHead(0, execution_result)
  /\ UNCHANGED <<max_iterations, execution_result, retrieval_state, execCalls,
                 lastExecRaw, execution_agent_max_turns, retrieval_agent_max_turns,
                 execution_turns>>

\* 2)-4) await execute_command, parse, return on success, else build retrieval_state
ExecuteCommand(raw) ==
  /\ pc = "execute"
  /\ execCalls' = execCalls + 1
  /\ lastExecRaw' = raw
  /\ execution_turns' = execution_agent_max_turns
  /\ IF raw.kind = "raise"
     THEN /\ pc' = "raised"
          /\ run_error' = raw.error
          /\ UNCHANGED <<execution_result, retrieval_state, run_result>>
     ELSE /\ execution_result' = ParseExecution(raw)
          /\ IF CheckSuccess(execution_result')
             THEN /\ pc' = "returned"
                  /\ run_result' = execution_result'
                  /\ UNCHANGED retrieval_state
             ELSE /\ pc' = "re_retrieve"
                  /\ retrieval_state' =
                       RetrievalState(iteration, all_previous_queries, execution_result')
                  /\ UNCHANGED run_result
          /\ UNCHANGED run_error
  /\ UNCHANGED <<max_iterations, iteration, all_previous_queries, context,
                 retrieval_result, retrCalls, execution_agent_max_turns,
                 retrieval_agent_max_turns, retrieval_turns>>

\* 5) await test_retrieve(re_retrieval_prompt), parse, then the next loop head
ReRetrieval(raw) ==
  /\ pc = "re_retrieve"
  /\ retrCalls' = retrCalls + 1
  /\ retrieval_turns' = retrieval_agent_max_turns
  /\ IF raw.kind = "raise"
     THEN /\ pc' = "raised"
          /\ run_error' = raw.error
          /\ UNCHANGED <<iteration, all_previous_queries, context, retrieval_result,
                         run_result>>
     ELSE /\ retrieval_result' = ParseRetrieval(raw)
          /\ all_previous_queries' = ExtendLog(all_previous_queries, retrieval_result')
          /\ context' = ContextOf(raw, retrieval_result')
          /\ LoopHead(iteration + 1, execution_result)
  /\ UNCHANGED <<max_iterations, execution_result, retrieval_state, execCalls,
                 lastExecRaw, execution_agent_max_turns, retrieval_agent_max_turns,
                 execution_turns>>

OrchNext ==
  \/ \E k \in 0..MaxIterations, e \in TurnBudgets, r \in TurnBudgets :
       Run(k, e, r) /\ UNCHANGED <<retrVars, nameVars, trackVars, toolVars, clsVars, extVars>>
  \/ \E raw \in TestRetrieveOutcomes : InitialRetrieval(raw) /\ UNCHANGED <<retrVars, nameVars, trackVars, toolVars, clsVars, extVars>>
  \/ \E raw \in ExecuteCommandOutcomes : ExecuteCommand(raw) /\ UNCHANGED <<retrVars, nameVars, trackVars, toolVars, clsVars, extVars>>
  \/ \E raw \in TestRetrieveOutcomes : ReRetrieval(raw) /\ UNCHANGED <<retrVars, nameVars, trackVars, toolVars, clsVars, extVars>>

\* ---------------------------------------------------------------------
\* MemoryRetriever: caches and their helpers
\* ---------------------------------------------------------------------

ExactCacheMax == 50
SemanticCacheMaxLen == 10
\* self._cosine_similarity_threshold = 0.70, in hundredths
CosineSimilarityThresholdPct == 70

Callers == {1, 2}
Queries == {"q1", "q2"}
\* query vectors the embedding provider can return (one of them has zero norm)
Vectors == {<<0, 0>>, <<1, 0>>, <<1, 1>>, <<0, 1>>}
\* result lists the vector store can return for a query
StoreResults == {<<>>, <<"t1">>, <<"t2", "t1">>}

\* np.dot of two vectors of the same length
RECURSIVE Dot(_, _)
Dot(a, b) == IF a = <<>> THEN 0 ELSE a[1] * b[1] + Dot(Tail(a), Tail(b))

\* _cosine_similarity(a, b) >= pct/100, with similarity 0.0 when a norm is zero:
\* dot/(|a||b|) >= pct/100  iff  dot > 0 and 10000*dot^2 >= pct^2*|a|^2*|b|^2
CosineSimilarityAtLeast(a, b, pct) ==
  IF Dot(a, a) = 0 \/ Dot(b, b) = 0
  THEN 0 >= pct
  ELSE /\ Dot(a, b) > 0
       /\ 10000 * Dot(a, b) * Dot(a, b) >= pct * pct * Dot(a, a) * Dot(b, b)

\* Optional[list[str]] returned by _find_semantic_cache_hit
NoHit == [hit |-> FALSE, results |-> <<>>]
Hit(results) == [hit |-> TRUE, results |-> results]

RECURSIVE FindSemanticCacheHitOldestFirst(_, _)
FindSemanticCacheHitOldestFirst(cache, query_vector) ==
  IF cache = <<>> THEN NoHit
  ELSE IF CosineSimilarityAtLeast(query_vector, cache[1].vector,
                                  CosineSimilarityThresholdPct)
  THEN Hit(cache[1].results)
  ELSE FindSemanticCacheHitOldestFirst(Tail(cache), query_vector)

\* _find_semantic_cache_hit: scan newest-first, first entry at or above the threshold
RECURSIVE FindSemanticCacheHit(_, _)
FindSemanticCacheHit(cache, query_vector) ==
  IF cache = <<>> THEN NoHit
  ELSE LET newest == cache[Len(cache)]
       IN IF CosineSimilarityAtLeast(query_vector, newest.vector,
                                     CosineSimilarityThresholdPct)
          THEN Hit(newest.results)
          ELSE FindSemanticCacheHit(SubSeq(cache, 1, Len(cache) - 1), query_vector)

\* `if semantic_cache_result:` is Python truthiness: None and the empty list are false
Truthy(semantic_cache_result) ==
  semantic_cache_result.hit /\ semantic_cache_result.results # <<>>

\* `key in self._exact_cache`
InCache(cache, key) == \E i \in 1..Len(cache) : cache[i].key = key

\* `self._exact_cache[key]`
CacheGet(cache, key) ==
  LET i == CHOOSE j \in 1..Len(cache) : cache[j].key = key IN cache[i].value

MoveToEndStays(cache, key) == cache

\* OrderedDict.move_to_end(key)
MoveToEnd(cache, key) ==
  LET i == CHOOSE j \in 1..Len(cache) : cache[j].key = key
  IN SubSeq(cache, 1, i - 1) \o SubSeq(cache, i + 1, Len(cache)) \o <<cache[i]>>

SetExactCacheSkipsInsert(cache, key, value) == cache

\* _set_exact_cache: insert or update as most recently used, evict the LRU entry
\* when the cache holds more than _exact_cache_max keys
SetExactCache(cache, key, value) ==
  LET moved == IF InCache(cache, key) THEN MoveToEnd(cache, key) ELSE cache
      stored == IF InCache(moved, key)
                THEN [moved EXCEPT ![Len(moved)] = [key |-> key, value |-> value]]
                ELSE Append(moved, [key |-> key, value |-> value])
  IN IF Len(stored) > ExactCacheMax THEN Tail(stored) ELSE stored

DequeAppendUnbounded(deque, x) == Append(deque, x)

\* deque(maxlen=10).append
DequeAppend(deque, x) ==
  LET appended == Append(deque, x)
  IN IF Len(appended) > SemanticCacheMaxLen THEN Tail(appended) ELSE appended

\* ---------------------------------------------------------------------
\* Embedding provider and vector store as seen by the retriever
\* ---------------------------------------------------------------------

\* what the provider's embed_content call can do for one text
ProviderOutcomes ==
  {[kind |-> "values", vector |-> v] : v \in Vectors}
    \cup {[kind |-> "none_values", vector |-> <<0, 0>>],
          [kind |-> "no_embeddings", vector |-> <<0, 0>>],
          [kind |-> "api_error", vector |-> <<0, 0>>]}

\* aembed_text: the vectors with None values filtered out; a missing result or
\* an API exception is re-raised (only ValidationError is retried)
AembedText(outcome) ==
  CASE outcome.kind = "values" ->
         [kind |-> "return", vectors |-> <<outcome.vector>>, error |-> None]
    [] outcome.kind = "none_values" ->
         [kind |-> "return", vectors |-> <<>>, error |-> None]
    [] outcome.kind = "no_embeddings" ->
         [kind |-> "raise", vectors |-> <<>>,
          error |-> "ValueError: No embeddings returned from API"]
    [] outcome.kind = "api_error" ->
         [kind |-> "raise", vectors |-> <<>>, error |-> "APIError"]

\* find_similar_texts: a result list, or a store error that is re-raised
FindSimilarTextsOutcomes ==
  {[kind |-> "return", results |-> r, error |-> None] : r \in StoreResults}
    \cup {[kind |-> "raise", results |-> <<>>, error |-> "DBError"]}

\* ---------------------------------------------------------------------
\* MemoryRetriever.find_semantically_similar
\* ---------------------------------------------------------------------

ExactCacheConsultedIgnoresDisable(dc, cache, key) == InCache(cache, key)

\* `if disable_cache: ...` runs first; only then `if query in self._exact_cache`
ExactCacheConsulted(dc, cache, key) == ~dc /\ InCache(cache, key)

IdleCall ==
  [pc |-> "idle", query |-> None, disable_cache |-> FALSE, query_vector |-> <<0, 0>>,
   semantic_cache_result |-> NoHit, result |-> <<>>, error |-> None,
   via |-> None, embedOutcome |-> None, embedCalls |-> 0, storeCalls |-> 0]

RetrInit ==
  /\ exact_cache = <<>>
  /\ semantic_cache = <<>>
  /\ call = [c \in Callers |-> IdleCall]
  /\ lastCall = IdleCall
  /\ numCalls = 0

\* find_semantically_similar(query, disable_cache) up to its first await:
\* with the cache enabled an exact hit promotes the key and returns at once,
\* otherwise the embedding client is awaited
CallFindSemanticallySimilar(c, q, dc) ==
  /\ call[c].pc = "idle"
  /\ numCalls' = numCalls + 1
  /\ IF ExactCacheConsulted(dc, exact_cache, q)
     THEN /\ exact_cache' = MoveToEnd(exact_cache, q)
          /\ call' = [call EXCEPT ![c] =
                        [IdleCall EXCEPT !.pc = "returned", !.query = q,
                                         !.disable_cache = dc, !.via = "exact_cache",
                                         !.result = CacheGet(exact_cache, q)]]
     ELSE /\ call' = [call EXCEPT ![c] =
                        [IdleCall EXCEPT !.pc = "embed", !.query = q,
                                         !.disable_cache = dc, !.embedCalls = 1]]
          /\ UNCHANGED exact_cache
  /\ UNCHANGED <<semantic_cache, lastCall>>

\* aembed_text completes: failure handling, then (cache enabled) the semantic
\* cache lookup with promotion into the exact cache, else the store is awaited
EmbedDone(c, outcome) ==
  /\ call[c].pc = "embed"
  /\ LET embedded == AembedText(outcome)
         me == [call[c] EXCEPT !.embedOutcome = outcome.kind]
     IN IF embedded.kind = "raise"
        THEN /\ call' = [call EXCEPT ![c] =
                           [me EXCEPT !.pc = "raised", !.error = embedded.error]]
             /\ UNCHANGED exact_cache
        ELSE IF embedded.vectors = <<>>
        THEN /\ call' = [call EXCEPT ![c] =
                           [me EXCEPT !.pc = "returned", !.result = <<>>,
                                      !.via = "embed_failed"]]
             /\ UNCHANGED exact_cache
        ELSE LET query_vector == embedded.vectors[1]
                 semantic_cache_result ==
                   IF me.disable_cache THEN NoHit
                   ELSE FindSemanticCacheHit(semantic_cache, query_vector)
                 me2 == [me EXCEPT !.query_vector = query_vector,
                                   !.semantic_cache_result = semantic_cache_result]
             IN IF ~me.disable_cache /\ Truthy(semantic_cache_result)
                THEN /\ exact_cache' =
                          SetExactCache(exact_cache, me.query, semantic_cache_result.results)
                     /\ call' = [call EXCEPT ![c] =
                                   [me2 EXCEPT !.pc = "returned",
                                               !.result = semantic_cache_result.results,
                                               !.via = "semantic_cache"]]
                ELSE /\ call' = [call EXCEPT ![c] =
                                   [me2 EXCEPT !.pc = "store", !.storeCalls = 1]]
                     /\ UNCHANGED exact_cache
  /\ UNCHANGED <<semantic_cache, lastCall, numCalls>>

\* find_similar_texts completes: with the cache enabled both caches are populated
StoreDone(c, outcome) ==
  /\ call[c].pc = "store"
  /\ IF outcome.kind = "raise"
     THEN /\ call' = [call EXCEPT ![c].pc = "raised", ![c].error = outcome.error]
          /\ UNCHANGED <<exact_cache, semantic_cache>>
     ELSE /\ call' = [call EXCEPT ![c].pc = "returned", ![c].result = outcome.results,
                                  ![c].via = "vector_store"]
          /\ IF call[c].disable_cache
             THEN UNCHANGED <<exact_cache, semantic_cache>>
             ELSE /\ exact_cache' =
                       SetExactCache(exact_cache, call[c].query, outcome.results)
                  /\ semantic_cache' =
                       DequeAppend(semantic_cache,
                                   [vector |-> call[c].query_vector,
                                    results |-> outcome.results])
  /\ UNCHANGED <<lastCall, numCalls>>

\* the caller receives the value (or the exception) and may call again
Finish(c) ==
  /\ call[c].pc \in {"returned", "raised"}
  /\ lastCall' = call[c]
  /\ call' = [call EXCEPT ![c] = IdleCall]
  /\ UNCHANGED <<exact_cache, semantic_cache, numCalls>>

NoCallInProgress == \A c \in Callers : call[c].pc = "idle"

\* calls made one after the other (one tool call of one agent at a time)
RetrSeqNext ==
  \/ \E c \in Callers, q \in Queries, dc \in BOOLEAN :
       /\ numCalls < MaxCalls
       /\ NoCallInProgress
       /\ CallFindSemanticallySimilar(c, q, dc)
       /\ UNCHANGED <<orchVars, nameVars, trackVars, toolVars, clsVars, extVars>>
  \/ \E c \in Callers, o \in ProviderOutcomes : EmbedDone(c, o) /\ UNCHANGED <<orchVars, nameVars, trackVars, toolVars, clsVars, extVars>>
  \/ \E c \in Callers, o \in FindSimilarTextsOutcomes : StoreDone(c, o) /\ UNCHANGED <<orchVars, nameVars, trackVars, toolVars, clsVars, extVars>>
  \/ \E c \in Callers : Finish(c) /\ UNCHANGED <<orchVars, nameVars, trackVars, toolVars, clsVars, extVars>>

\* one agent asking three different questions one after the other, cache enabled
SimilarQueries == {"q1", "q2", "q3"}

RetrSimilarNext ==
  \/ \E q \in SimilarQueries :
       /\ numCalls < MaxCalls
       /\ CallFindSemanticallySimilar(1, q, FALSE)
       /\ UNCHANGED <<orchVars, nameVars, trackVars, toolVars, clsVars, extVars>>
  \/ \E o \in ProviderOutcomes :
       EmbedDone(1, o) /\ UNCHANGED <<orchVars, nameVars, trackVars, toolVars, clsVars, extVars>>
  \/ \E o \in FindSimilarTextsOutcomes :
       StoreDone(1, o) /\ UNCHANGED <<orchVars, nameVars, trackVars, toolVars, clsVars, extVars>>
  \/ Finish(1) /\ UNCHANGED <<orchVars, nameVars, trackVars, toolVars, clsVars, extVars>>

\* ---- a long session: enough different questions to fill both caches ----

\* the i-th different question of the session
LongQuery(i) == ToString(i)

QueryIndex(q) == CHOOSE i \in 1..MaxLongCalls : LongQuery(i) = q

\* embeddings of unrelated questions: pairwise orthogonal unit vectors
OneHot(k) == [i \in 1..LongVectorDim |-> IF i = k THEN 1 ELSE 0]

OwnVector(q) == OneHot(((QueryIndex(q) - 1) % LongVectorDim) + 1)

\* the vector store's answer in the long session
LongStoreOutcome == [kind |-> "return", results |-> <<"t1">>, error |-> None]

Max(S) == CHOOSE x \in S : \A y \in S : y <= x

\* how many different questions have been asked so far
QuestionsAsked ==
  Max({0} \cup {QueryIndex(exact_cache[i].key) : i \in 1..Len(exact_cache)}
          \cup {QueryIndex(call[c].query) : c \in {d \in Callers : call[d].pc # "idle"}})

\* caller 1 asks one new question after the other; caller 2 asks the first
\* question again, once, at any moment, possibly while caller 1's call is in
\* flight; every LongVectorDim-th question has the same embedding
RetrLongNext ==
  \/ /\ numCalls < MaxLongCalls
     /\ call[2].pc = "idle"
     /\ CallFindSemanticallySimilar(1, LongQuery(QuestionsAsked + 1), FALSE)
     /\ UNCHANGED <<orchVars, nameVars, trackVars, toolVars, clsVars, extVars>>
  \/ /\ numCalls < MaxLongCalls
     /\ numCalls >= 1
     /\ numCalls = QuestionsAsked
     /\ CallFindSemanticallySimilar(2, LongQuery(1), FALSE)
     /\ UNCHANGED <<orchVars, nameVars, trackVars, toolVars, clsVars, extVars>>
  \/ \E c \in Callers :
       /\ call[c].pc = "embed"
       /\ EmbedDone(c, [kind |-> "values", vector |-> OwnVector(call[c].query)])
       /\ UNCHANGED <<orchVars, nameVars, trackVars, toolVars, clsVars, extVars>>
  \/ \E c \in Callers :
       StoreDone(c, LongStoreOutcome)
         /\ UNCHANGED <<orchVars, nameVars, trackVars, toolVars, clsVars, extVars>>
  \/ \E c \in Callers :
       Finish(c) /\ UNCHANGED <<orchVars, nameVars, trackVars, toolVars, clsVars, extVars>>

\* ---------------------------------------------------------------------
\* MemoryRetriever.find_person_by_name and the person-name cache
\* ---------------------------------------------------------------------

\* names as character sequences, so that strip() and lower() have something to do
Names ==
  {<<"a">>, <<"A">>, <<" ", "a">>, <<"A", " ">>, <<"a", " ", "a">>,
   <<"A", "a">>, <<" ">>, <<>>}

\* str.isspace for one character
IsSpace(ch) == ch = " "

\* str.lower for one character
LowerChar(ch) == IF ch = "A" THEN "a" ELSE ch

\* str.lower
Lower(name) == [i \in 1..Len(name) |-> LowerChar(name[i])]

\* str.strip: leading and trailing whitespace removed, inner whitespace kept
RECURSIVE Strip(_)
Strip(name) ==
  IF name = <<>> THEN <<>>
  ELSE IF IsSpace(name[1]) THEN Strip(Tail(name))
  ELSE IF IsSpace(name[Len(name)]) THEN Strip(SubSeq(name, 1, Len(name) - 1))
  ELSE name

PersonCacheKeyRaw(name) == name

\* `normalized = name.strip().lower()`
PersonCacheKey(name) == Lower(Strip(name))

\* result lists (of dicts) the people table lookup can return
PersonResults == {<<>>, <<"p1">>, <<"p2", "p1">>}

\* people_crud.find_person_by_name: a result list, or a store error that propagates
FindPersonByNameOutcomes ==
  {[kind |-> "return", results |-> r, error |-> None] : r \in PersonResults}
    \cup {[kind |-> "raise", results |-> <<>>, error |-> "DBError"]}

SetPersonNameCacheNeverEvicts(cache, key, value, name) ==
  IF InCache(cache, key)
  THEN [i \in 1..Len(cache) |->
          IF cache[i].key = key THEN [key |-> key, value |-> value, name |-> name]
          ELSE cache[i]]
  ELSE Append(cache, [key |-> key, value |-> value, name |-> name])

\* `self._person_name_cache[normalized] = results` followed by the LRU eviction:
\* an existing key keeps its position, a new key goes to the end
SetPersonNameCache(cache, key, value, name) ==
  LET entry == [key |-> key, value |-> value, name |-> name]
      stored == IF InCache(cache, key)
                THEN [i \in 1..Len(cache) |->
                        IF cache[i].key = key THEN entry ELSE cache[i]]
                ELSE Append(cache, entry)
  IN IF Len(stored) > ExactCacheMax THEN Tail(stored) ELSE stored

NameKeys == {Lower(Strip(n)) : n \in Names}

NoPersonResult == [known |-> FALSE, results |-> <<>>]

IdlePersonCall ==
  [pc |-> "idle", name |-> <<>>, normalized |-> <<>>, result |-> <<>>,
   error |-> None, backendCalls |-> 0]

NameInit ==
  /\ person_name_cache = <<>>
  /\ pcall = [c \in Callers |-> IdlePersonCall]
  /\ numPersonCalls = 0
  /\ lastPersonResult = [k \in NameKeys |-> NoPersonResult]

\* find_person_by_name(name) up to its first await: a cached key is promoted and
\* its value returned at once, otherwise the people table lookup is awaited
CallFindPersonByName(c, name) ==
  /\ pcall[c].pc = "idle"
  /\ numPersonCalls' = numPersonCalls + 1
  /\ LET normalized == PersonCacheKey(name)
     IN IF InCache(person_name_cache, normalized)
        THEN /\ person_name_cache' = MoveToEnd(person_name_cache, normalized)
             /\ pcall' = [pcall EXCEPT ![c] =
                            [IdlePersonCall EXCEPT
                               !.pc = "returned", !.name = name,
                               !.normalized = normalized,
                               !.result = CacheGet(person_name_cache, normalized)]]
             /\ lastPersonResult' =
                  [lastPersonResult EXCEPT ![normalized] =
                     [known |-> TRUE,
                      results |-> CacheGet(person_name_cache, normalized)]]
        ELSE /\ pcall' = [pcall EXCEPT ![c] =
                            [IdlePersonCall EXCEPT
                               !.pc = "backend", !.name = name,
                               !.normalized = normalized, !.backendCalls = 1]]
             /\ UNCHANGED <<person_name_cache, lastPersonResult>>

\* the people table lookup completes: the result is cached under the normalised
\* name and returned; an error propagates and caches nothing
PersonBackendDone(c, outcome) ==
  /\ pcall[c].pc = "backend"
  /\ IF outcome.kind = "raise"
     THEN /\ pcall' = [pcall EXCEPT ![c].pc = "raised", ![c].error = outcome.error]
          /\ UNCHANGED <<person_name_cache, lastPersonResult>>
     ELSE /\ pcall' = [pcall EXCEPT ![c].pc = "returned",
                                    ![c].result = outcome.results]
          /\ person_name_cache' =
               SetPersonNameCache(person_name_cache, pcall[c].normalized,
                                  outcome.results, pcall[c].name)
          /\ lastPersonResult' =
               [lastPersonResult EXCEPT ![PersonCacheKey(pcall[c].name)] =
                  [known |-> TRUE, results |-> outcome.results]]
  /\ UNCHANGED numPersonCalls

\* the caller receives the value (or the exception) and may call again
PersonFinish(c) ==
  /\ pcall[c].pc \in {"returned", "raised"}
  /\ pcall' = [pcall EXCEPT ![c] = IdlePersonCall]
  /\ UNCHANGED <<person_name_cache, numPersonCalls, lastPersonResult>>

\* callers interleave at the await of the people table lookup
NameNext ==
  \/ \E c \in Callers, n \in Names :
       numPersonCalls < MaxPersonCalls /\ CallFindPersonByName(c, n) /\ UNCHANGED <<orchVars, retrVars, trackVars, toolVars, clsVars, extVars>>
  \/ \E c \in Callers, o \in FindPersonByNameOutcomes :
       PersonBackendDone(c, o) /\ UNCHANGED <<orchVars, retrVars, trackVars, toolVars, clsVars, extVars>>
  \/ \E c \in Callers : PersonFinish(c) /\ UNCHANGED <<orchVars, retrVars, trackVars, toolVars, clsVars, extVars>>

\* ---- a long session with both kinds of lookup, enough to fill all three caches ----

\* the i-th different name of the session, written with a leading blank and a capital
LongName(i) == <<" ", "A", ToString(i \div 10), ToString(i % 10)>>

\* the people table's answer in the long session
LongPersonOutcome == [kind |-> "return", results |-> <<"p1">>, error |-> None]

\* the cache is one insert away from its capacity, or beyond
NearFull(cache) == Len(cache) >= ExactCacheMax - 1

\* semantic lookups and name lookups alternate, each asking something new; the
\* second caller joins with overlapping calls once a cache is nearly full
CachesFullNext ==
  \/ \E c \in Callers :
       /\ numCalls < MaxLongCalls
       /\ numCalls <= numPersonCalls
       /\ c = 1 \/ NearFull(exact_cache)
       /\ CallFindSemanticallySimilar(c, LongQuery(QuestionsAsked + 1), FALSE)
       /\ UNCHANGED <<orchVars, nameVars, trackVars, toolVars, clsVars, extVars>>
  \/ \E c \in Callers :
       /\ call[c].pc = "embed"
       /\ EmbedDone(c, [kind |-> "values", vector |-> OwnVector(call[c].query)])
       /\ UNCHANGED <<orchVars, nameVars, trackVars, toolVars, clsVars, extVars>>
  \/ \E c \in Callers :
       StoreDone(c, LongStoreOutcome)
         /\ UNCHANGED <<orchVars, nameVars, trackVars, toolVars, clsVars, extVars>>
  \/ \E c \in Callers :
       Finish(c) /\ UNCHANGED <<orchVars, nameVars, trackVars, toolVars, clsVars, extVars>>
  \/ \E c \in Callers :
       /\ numPersonCalls < MaxLongCalls
       /\ numPersonCalls <= numCalls
       /\ c = 1 \/ NearFull(person_name_cache)
       /\ CallFindPersonByName(c, LongName(numPersonCalls + 1))
       /\ UNCHANGED <<orchVars, retrVars, trackVars, toolVars, clsVars, extVars>>
  \/ \E c \in Callers :
       PersonBackendDone(c, LongPersonOutcome)
         /\ UNCHANGED <<orchVars, retrVars, trackVars, toolVars, clsVars, extVars>>
  \/ \E c \in Callers :
       PersonFinish(c) /\ UNCHANGED <<orchVars, retrVars, trackVars, toolVars, clsVars, extVars>>

\* ---------------------------------------------------------------------
\* Device client: UI states and change detection
\* ---------------------------------------------------------------------

UIState(package, activity, focused_element, ui_elements) ==
  [kind |-> "UIState", package |-> package, activity |-> activity,
   focused_element |-> focused_element, ui_elements |-> ui_elements]

\* `self.last_state = None`
NoState == [kind |-> "None", package |-> None, activity |-> None,
            focused_element |-> None, ui_elements |-> None]

\* the screens the device shows while it is polled; two of them differ only in
\* their element list
PolledStates ==
  {UIState("home", "main", "none", "e1"), UIState("home", "main", "none", "e2"),
   UIState("home", "main", "field", "e1"), UIState("chat", "main", "none", "e1")}

\* the screen connect() saw at startup and stored in last_state
StartupState == UIState("home", "main", "none", "e1")

ClassifyChangeIgnoresFocus(before, after) ==
  IF before.package # after.package THEN "APP_SWITCH"
  ELSE IF before.activity = after.activity THEN "NO_CHANGE"
  ELSE "CHANGED"

\* _classify_change
ClassifyChange(before, after) ==
  IF before.package # after.package THEN "APP_SWITCH"
  ELSE IF /\ before.activity = after.activity
          /\ before.focused_element = after.focused_element
       THEN "NO_CHANGE"
       ELSE "CHANGED"

UIStateChange(change_type, before, after) ==
  [kind |-> "UIStateChange", change_type |-> change_type, before |-> before,
   after |-> after]

\* detect_state_change returning None
NoChangeEvent == UIStateChange(None, NoState, NoState)

\* `if change:` fails exactly for None
IsNone(change) == change.change_type = None

DetectStateChangeReportsNoChange(last, current) ==
  IF last.kind = "None"
  THEN [change |-> NoChangeEvent, last_state |-> current]
  ELSE [change |-> UIStateChange(ClassifyChange(last, current), last, current),
        last_state |-> current]

\* detect_state_change after get_state returned `current`: None when there is no
\* previous state (which becomes `current`) or when the pair is classified
\* NO_CHANGE (last_state is kept), else the change event, and last_state moves on
DetectStateChange(last, current) ==
  IF last.kind = "None"
  THEN [change |-> NoChangeEvent, last_state |-> current]
  ELSE IF ClassifyChange(last, current) = "NO_CHANGE"
  THEN [change |-> NoChangeEvent, last_state |-> last]
  ELSE [change |-> UIStateChange(ClassifyChange(last, current), last, current),
        last_state |-> current]

\* what tools.get_state() can do for one poll
GetStateOutcomes ==
  {[kind |-> "state", state |-> s] : s \in PolledStates}
    \cup {[kind |-> "raise", state |-> NoState]}

\* ---------------------------------------------------------------------
\* ObservationTracker: state and helpers
\* ---------------------------------------------------------------------

InferredActionsMaxLen == 50
ActionContextSize == 3
ObservationsMaxLen == 20
StateChangesMaxLen == 10

TaskIds == 1..MaxStarts
StopHandlers == {1, 2}

BoundedAppendDropsNewest(deque, x, maxlen) ==
  IF Len(deque) >= maxlen THEN deque ELSE Append(deque, x)

\* deque(maxlen=n).append: a full deque drops its oldest entry
BoundedAppend(deque, x, maxlen) ==
  LET appended == Append(deque, x)
  IN IF Len(appended) > maxlen THEN Tail(appended) ELSE appended

\* _infer_action: the classifier never yields TEXT_INPUT, so the per-app branches
\* fall through to UnknownAction
InferAction(change) ==
  [kind |-> IF change.change_type = "APP_SWITCH" THEN "AppSwitchAction"
            ELSE "UnknownAction",
   source_change_type |-> change.change_type,
   package |-> change.after.package]

NodeText == "n1"

Observation(id, node) == [kind |-> "Observation", id |-> id, node |-> node]

NoObservation == [kind |-> "None", id |-> 0, node |-> None]

\* what one inferencer call (create_new_observation, update_observation) can do
InferencerOutcomes == {"observation", "none", "raise"}

\* what generate_and_save_embedding can do
GenerateAndSaveEmbeddingOutcomes == {"saved", "embed_error", "store_error"}

NoTask ==
  [pc |-> "none", current_state |-> NoState, old_observation |-> NoObservation,
   new_observation |-> NoObservation, lastError |-> None]

IdleStopper == [pc |-> "idle", task |-> 0]

\* asyncio.Task.done()
Done(t) == task[t].pc \in {"finished", "cancelled"}

\* the coroutine start_tracking of task t has not ended
Alive(t) == task[t].pc \notin {"none", "finished", "cancelled"}

Sleeping == {"sleep_short", "sleep_poll", "sleep_backoff"}

AfterIterationErrorExits(err) == "finished"

\* `except Exception as e: ...; await asyncio.sleep(5)` inside the while loop
AfterIterationError(err) == "sleep_backoff"

\* an exception raised inside the try block of one iteration
IterationError(t, err) ==
  [task EXCEPT ![t].pc = AfterIterationError(err), ![t].lastError = err]

\* `if self.action_counter >= self.action_context_size`
CounterReached(counter) == counter >= ActionContextSize

\* `old_observation = self.observations[-1]` raises IndexError on an empty deque
SaveObservationRaisesIndexError(deque) == deque = <<>>

TrackInit ==
  /\ running = FALSE
  /\ tracking_task = 0
  /\ task = [t \in TaskIds |-> NoTask]
  /\ recent_state_changes = <<>>
  /\ inferred_actions = <<>>
  /\ observations = <<>>
  /\ action_counter = 0
  /\ last_state = StartupState
  /\ text_embeddings = {}
  /\ nextObservationId = 1
  /\ stopper = [h \in StopHandlers |-> IdleStopper]
  /\ numPolls = 0
  /\ numStarts = 0
  /\ numStops = 0
  /\ lastStart = "none"

lifecycleVars == <<tracking_task, stopper, numStarts, numStops, lastStart>>
dataVars == <<recent_state_changes, inferred_actions, observations, action_counter,
              last_state, text_embeddings, nextObservationId, numPolls>>

\* ---------------------------------------------------------------------
\* ObservationTracker.start_tracking: one action per stretch between awaits
\* ---------------------------------------------------------------------

\* the task's first step: `self.running = True`, the loop test, and the first
\* detect_state_change is awaited
TaskFirstStep(t) ==
  /\ task[t].pc = "created"
  /\ running' = TRUE
  /\ task' = [task EXCEPT ![t].pc = "detect"]
  /\ UNCHANGED <<lifecycleVars, dataVars>>

\* get_state completes: change detection, bookkeeping of a change, and on every
\* action_context_size-th action the inferencer is awaited
DetectDone(t, outcome) ==
  /\ task[t].pc = "detect"
  /\ numPolls' = numPolls + 1
  /\ IF outcome.kind = "raise"
     THEN /\ task' = [IterationError(t, "DeviceError") EXCEPT
                        ![t].current_state = NoState]
          /\ UNCHANGED <<recent_state_changes, inferred_actions, action_counter,
                         last_state>>
     ELSE LET detected == DetectStateChange(last_state, outcome.state)
              change == detected.change
              counter == action_counter + 1
          IN /\ last_state' = detected.last_state
             /\ IF IsNone(change)
                THEN /\ task' = [task EXCEPT ![t].pc = "sleep_poll",
                                             ![t].current_state = outcome.state]
                     /\ UNCHANGED <<recent_state_changes, inferred_actions,
                                    action_counter>>
                ELSE /\ recent_state_changes' =
                          BoundedAppend(recent_state_changes, change,
                                        StateChangesMaxLen)
                     /\ inferred_actions' =
                          BoundedAppend(inferred_actions, InferAction(change),
                                        InferredActionsMaxLen)
                     /\ action_counter' = counter
                     /\ task' = [task EXCEPT
                                   ![t].current_state = outcome.state,
                                   ![t].pc =
                                     IF ~CounterReached(counter) THEN "sleep_short"
                                     ELSE IF observations # <<>> THEN "update_obs"
                                     ELSE "create_obs"]
  /\ UNCHANGED <<running, lifecycleVars, observations, text_embeddings,
                 nextObservationId>>

\* update_observation completes: the tail is replaced in place, or creation is tried
UpdateDone(t, outcome) ==
  /\ task[t].pc = "update_obs"
  /\ IF outcome = "raise"
     THEN /\ task' = IterationError(t, "InferencerError")
          /\ UNCHANGED <<observations, action_counter, nextObservationId>>
     ELSE IF outcome = "none"
     THEN /\ task' = [task EXCEPT ![t].pc = "create_obs"]
          /\ UNCHANGED <<observations, action_counter, nextObservationId>>
     ELSE IF observations = <<>>
     THEN /\ task' = IterationError(t, "IndexError")
          /\ nextObservationId' = nextObservationId + 1
          /\ UNCHANGED <<observations, action_counter>>
     ELSE /\ observations' =
               [observations EXCEPT ![Len(observations)] =
                  Observation(nextObservationId, NodeText)]
          /\ nextObservationId' = nextObservationId + 1
          /\ action_counter' = 0
          /\ task' = [task EXCEPT ![t].pc = "sleep_short"]
  /\ UNCHANGED <<running, lifecycleVars, recent_state_changes, inferred_actions,
                 last_state, text_embeddings, numPolls>>

\* create_new_observation completes; a new observation goes to _save_observation,
\* which reads the tail of the deque before anything else
CreateDone(t, outcome) ==
  /\ task[t].pc = "create_obs"
  /\ IF outcome = "raise"
     THEN /\ task' = IterationError(t, "InferencerError")
          /\ UNCHANGED <<action_counter, nextObservationId>>
     ELSE IF outcome = "none"
     THEN /\ task' = [task EXCEPT ![t].pc = "sleep_short",
                                  ![t].new_observation = NoObservation]
          /\ action_counter' = 0
          /\ UNCHANGED nextObservationId
     ELSE LET new_observation == Observation(nextObservationId, NodeText)
          IN /\ nextObservationId' = nextObservationId + 1
             /\ UNCHANGED action_counter
             /\ IF SaveObservationRaisesIndexError(observations)
                THEN task' = [IterationError(t, "IndexError") EXCEPT
                                ![t].new_observation = new_observation]
                ELSE task' = [task EXCEPT
                                ![t].pc = "save_embed",
                                ![t].old_observation = observations[Len(observations)],
                                ![t].new_observation = new_observation]
  /\ UNCHANGED <<running, lifecycleVars, recent_state_changes, inferred_actions,
                 observations, last_state, text_embeddings, numPolls>>

\* generate_and_save_embedding completes: the previous tail's row is in the table
\* (its id is the observation id, the primary key), then the new observation is
\* appended and the counter reset
SaveEmbedDone(t, outcome) ==
  /\ task[t].pc = "save_embed"
  /\ IF outcome # "saved"
     THEN /\ task' = IterationError(t, "EmbeddingError")
          /\ UNCHANGED <<observations, action_counter, text_embeddings>>
     ELSE IF \E row \in text_embeddings : row.id = task[t].old_observation.id
     THEN /\ task' = IterationError(t, "IntegrityError")
          /\ UNCHANGED <<observations, action_counter, text_embeddings>>
     ELSE /\ text_embeddings' =
               text_embeddings \cup {[id |-> task[t].old_observation.id,
                                      observation_text |-> task[t].old_observation.node]}
          /\ observations' =
               BoundedAppend(observations, task[t].new_observation, ObservationsMaxLen)
          /\ action_counter' = 0
          /\ task' = [task EXCEPT ![t].pc = "sleep_short"]
  /\ UNCHANGED <<running, lifecycleVars, recent_state_changes, inferred_actions,
                 last_state, nextObservationId, numPolls>>

\* a sleep completes: the loop test, then the next detect_state_change or the end
SleepDone(t) ==
  /\ task[t].pc \in Sleeping
  /\ task' = [task EXCEPT ![t].pc = IF running THEN "detect" ELSE "finished"]
  /\ UNCHANGED <<running, lifecycleVars, dataVars>>

\* ---------------------------------------------------------------------
\* Lifecycle requests and the clear routes
\* ---------------------------------------------------------------------

\* start_background_tracking (no await): a finished task is forgotten, a live one
\* makes the call fail, otherwise a new loop task is created
StartBackgroundTracking ==
  /\ numStarts' = numStarts + 1
  /\ LET ref == IF tracking_task # 0 /\ Done(tracking_task) THEN 0 ELSE tracking_task
         new == CHOOSE t \in TaskIds : task[t].pc = "none" /\
                  \A u \in TaskIds : task[u].pc = "none" => t <= u
     IN IF ref # 0
        THEN /\ lastStart' = "RuntimeError"
             /\ UNCHANGED <<tracking_task, task>>
        ELSE /\ lastStart' = "created"
             /\ task' = [task EXCEPT ![new] = [NoTask EXCEPT !.pc = "created"]]
             /\ tracking_task' = new
  /\ UNCHANGED <<running, stopper, numStops, dataVars>>

\* stop_tracking up to its await: the flag is cleared and a live task is waited for
StopTracking(h) ==
  /\ stopper[h].pc = "idle"
  /\ numStops' = numStops + 1
  /\ running' = FALSE
  /\ IF tracking_task # 0 /\ ~Done(tracking_task)
     THEN /\ stopper' = [stopper EXCEPT ![h] = [pc |-> "wait_for", task |-> tracking_task]]
          /\ UNCHANGED tracking_task
     ELSE /\ stopper' = [stopper EXCEPT ![h] = [pc |-> "returned", task |-> 0]]
          /\ tracking_task' = 0
  /\ UNCHANGED <<task, numStarts, lastStart, dataVars>>

\* the awaited task ended within the timeout: the reference is cleared; if it ended
\* cancelled, CancelledError leaves stop_tracking
StopWaitDone(h) ==
  /\ stopper[h].pc = "wait_for"
  /\ Done(stopper[h].task)
  /\ IF task[stopper[h].task].pc = "cancelled"
     THEN /\ stopper' = [stopper EXCEPT ![h].pc = "raised"]
          /\ UNCHANGED tracking_task
     ELSE /\ stopper' = [stopper EXCEPT ![h].pc = "returned"]
          /\ tracking_task' = 0
  /\ UNCHANGED <<running, task, numStarts, numStops, lastStart, dataVars>>

\* the timeout of wait_for expires first: wait_for cancels the task at its await
StopTimeout(h) ==
  /\ stopper[h].pc = "wait_for"
  /\ ~Done(stopper[h].task)
  /\ task' = [task EXCEPT ![stopper[h].task].pc = "cancelled"]
  /\ stopper' = [stopper EXCEPT ![h].pc = "timed_out"]
  /\ UNCHANGED <<running, tracking_task, numStarts, numStops, lastStart, dataVars>>

\* the TimeoutError handler: whatever self._tracking_task refers to now is
\* cancelled and awaited, then the reference is cleared
StopForceCancel(h) ==
  /\ stopper[h].pc = "timed_out"
  /\ IF tracking_task = 0
     THEN /\ stopper' = [stopper EXCEPT ![h].pc = "raised"]
          /\ UNCHANGED <<tracking_task, task>>
     ELSE /\ task' = IF Done(tracking_task) THEN task
                     ELSE [task EXCEPT ![tracking_task].pc = "cancelled"]
          /\ tracking_task' = 0
          /\ stopper' = [stopper EXCEPT ![h].pc = "returned"]
  /\ UNCHANGED <<running, numStarts, numStops, lastStart, dataVars>>

\* the request handler has answered and can serve another stop request
StopReturn(h) ==
  /\ stopper[h].pc \in {"returned", "raised"}
  /\ stopper' = [stopper EXCEPT ![h] = IdleStopper]
  /\ UNCHANGED <<running, tracking_task, task, numStarts, numStops, lastStart, dataVars>>

\* clear_observations
ClearObservations ==
  /\ observations' = <<>>
  /\ UNCHANGED <<running, task, lifecycleVars, recent_state_changes, inferred_actions,
                 action_counter, last_state, text_embeddings, nextObservationId,
                 numPolls>>

\* clear_state_changes
ClearStateChanges ==
  /\ recent_state_changes' = <<>>
  /\ UNCHANGED <<running, task, lifecycleVars, inferred_actions, observations,
                 action_counter, last_state, text_embeddings, nextObservationId,
                 numPolls>>

otherVars == <<orchVars, retrVars, nameVars, toolVars, clsVars, extVars>>

NoStopInProgress == \A h \in StopHandlers : stopper[h].pc = "idle"

\* the tracker with lifecycle requests served one at a time
TrackNext ==
  \/ numStarts < MaxTrackerStarts /\ NoStopInProgress /\ StartBackgroundTracking
       /\ UNCHANGED otherVars
  \/ \E t \in TaskIds : TaskFirstStep(t) /\ UNCHANGED otherVars
  \/ \E t \in TaskIds, o \in GetStateOutcomes :
       numPolls < MaxPolls /\ DetectDone(t, o) /\ UNCHANGED otherVars
  \/ \E t \in TaskIds, o \in InferencerOutcomes : CreateDone(t, o) /\ UNCHANGED otherVars
  \/ \E t \in TaskIds : SleepDone(t) /\ UNCHANGED otherVars
  \/ numStops < MaxTrackerStops /\ StopTracking(1) /\ UNCHANGED otherVars
  \/ StopWaitDone(1) /\ UNCHANGED otherVars
  \/ StopTimeout(1) /\ UNCHANGED otherVars
  \/ StopForceCancel(1) /\ UNCHANGED otherVars
  \/ StopReturn(1) /\ UNCHANGED otherVars
  \/ ClearObservations /\ UNCHANGED otherVars
  \/ ClearStateChanges /\ UNCHANGED otherVars

\* the steps that need a non-empty observations deque
TrackRotateNext ==
  \/ \E t \in TaskIds, o \in InferencerOutcomes : UpdateDone(t, o) /\ UNCHANGED otherVars
  \/ \E t \in TaskIds, o \in GenerateAndSaveEmbeddingOutcomes :
       SaveEmbedDone(t, o) /\ UNCHANGED otherVars

\* a user paging through three screens: every poll sees a change
ScreenAfter(s) ==
  IF s.package = "chat" THEN UIState("home", "main", "none", "e1")
  ELSE IF s.focused_element = "none" THEN UIState("home", "main", "field", "e1")
  ELSE UIState("chat", "main", "none", "e1")

\* one loop task running long enough to fill the deques, with clear requests
TrackLongNext ==
  \/ numStarts < MaxTrackerStarts /\ StartBackgroundTracking /\ UNCHANGED otherVars
  \/ \E t \in TaskIds : TaskFirstStep(t) /\ UNCHANGED otherVars
  \/ \E t \in TaskIds :
       /\ numPolls < MaxPollsLong
       /\ DetectDone(t, [kind |-> "state", state |-> ScreenAfter(last_state)])
       /\ UNCHANGED otherVars
  \/ \E t \in TaskIds : CreateDone(t, "none") /\ UNCHANGED otherVars
  \/ \E t \in TaskIds : SleepDone(t) /\ UNCHANGED otherVars
  \/ ClearObservations /\ UNCHANGED otherVars
  \/ ClearStateChanges /\ UNCHANGED otherVars

\* the screen does not change while requests are served
IdleDeviceOutcomes ==
  {[kind |-> "state", state |-> last_state], [kind |-> "raise", state |-> NoState]}

\* start and stop requests interleaving with the loop tasks at every await
LifecycleNext ==
  \/ numStarts < MaxStarts /\ StartBackgroundTracking /\ UNCHANGED otherVars
  \/ \E t \in TaskIds : TaskFirstStep(t) /\ UNCHANGED otherVars
  \/ \E t \in TaskIds, o \in IdleDeviceOutcomes :
       numPolls < MaxPolls /\ DetectDone(t, o) /\ UNCHANGED otherVars
  \/ \E t \in TaskIds : SleepDone(t) /\ UNCHANGED otherVars
  \/ \E h \in StopHandlers : numStops < MaxStops /\ StopTracking(h) /\ UNCHANGED otherVars
  \/ \E h \in StopHandlers : StopWaitDone(h) /\ UNCHANGED otherVars
  \/ \E h \in StopHandlers : StopTimeout(h) /\ UNCHANGED otherVars
  \/ \E h \in StopHandlers : StopForceCancel(h) /\ UNCHANGED otherVars
  \/ \E h \in StopHandlers : StopReturn(h) /\ UNCHANGED otherVars

\* ---------------------------------------------------------------------
\* AsyncGenAITypedClient.atool_call: the multi-turn tool-calling loop
\* ---------------------------------------------------------------------

\* keys of the tool_executors map handed to atool_call
ToolExecutors == {"tool_a", "tool_b"}

\* `response_content.parts[0].function_call`, None for a text part
FunctionCall(name) == [kind |-> "function_call", name |-> name]
NoFunctionCall == [kind |-> "None", name |-> None]

\* what one generate_content call can produce: a text answer (valid or not for
\* the response_model), a function call naming a known tool, an unknown tool or
\* no name at all, a response without content, or an exception
GenerateContentOutcomes ==
  {[kind |-> "text", function_call |-> NoFunctionCall, valid |-> v] : v \in BOOLEAN}
    \cup {[kind |-> "function_call", function_call |-> FunctionCall(n), valid |-> FALSE] :
            n \in ToolExecutors \cup {"unknown_tool", None}}
    \cup {[kind |-> "no_content", function_call |-> NoFunctionCall, valid |-> FALSE],
          [kind |-> "raise", function_call |-> NoFunctionCall, valid |-> FALSE]}

\* what awaiting one tool executor can do
ToolExecutorOutcomes == {"result", "raise"}

\* `tool_call is None or tool_call.name is None`
IsFinalText(call_part) == call_part.kind = None \/ call_part.name = None

KnownToolAcceptsAll(name) == TRUE

\* `tool_name not in tool_executors`, negated
KnownTool(name) == name \in ToolExecutors

TurnsLeftOffByOne(t, n) == t <= n

\* `for _turn in range(max_turns)`: there is an iteration for the value t
TurnsLeft(t, n) == t < n

\* one entry of `contents`
Content(role, part, name) == [role |-> role, part |-> part, name |-> name]

\* the value returned for a final text: the validated model, else the text itself
FinalValue(outcome, rm) ==
  IF rm /\ outcome.kind = "text" /\ outcome.valid
  THEN [kind |-> "response_model", text |-> "json"]
  ELSE [kind |-> "text", text |-> IF outcome.kind = "text" THEN "text" ELSE ""]

NoValue == [kind |-> "Unbound", text |-> None]

ToolInit ==
  /\ atool_pc = "idle"
  /\ max_turns = 0
  /\ response_model = FALSE
  /\ turn = 0
  /\ contents = <<>>
  /\ tool_call = NoFunctionCall
  /\ atool_result = NoValue
  /\ atool_error = None
  /\ numGenerate = 0
  /\ numExecutorCalls = 0

\* the head of the for loop at value t: the next generate_content call, or the
\* RuntimeError after the loop
TurnLoopHead(t, n, generated) ==
  IF TurnsLeft(t, n)
  THEN [pc |-> "generate", error |-> None, numGenerate |-> generated + 1]
  ELSE [pc |-> "raised", error |-> "RuntimeError", numGenerate |-> generated]

\* atool_call(..., max_turns = n) up to its first await
AtoolCall(n, rm) ==
  /\ atool_pc = "idle"
  /\ max_turns' = n
  /\ response_model' = rm
  /\ turn' = 0
  /\ contents' = <<Content("user", "text", None)>>
  /\ LET head == TurnLoopHead(0, n, numGenerate)
     IN /\ atool_pc' = head.pc
        /\ atool_error' = head.error
        /\ numGenerate' = head.numGenerate
  /\ UNCHANGED <<tool_call, atool_result, numExecutorCalls>>

\* generate_content completes: a final text returns, an unknown tool raises,
\* a known tool's executor is awaited
GenerateDone(outcome) ==
  /\ atool_pc = "generate"
  /\ tool_call' = outcome.function_call
  /\ IF outcome.kind = "raise"
     THEN /\ atool_pc' = "raised"
          /\ atool_error' = "APIError"
          /\ UNCHANGED <<atool_result, numExecutorCalls>>
     ELSE IF IsFinalText(outcome.function_call)
     THEN /\ atool_pc' = "returned"
          /\ atool_result' = FinalValue(outcome, response_model)
          /\ UNCHANGED <<atool_error, numExecutorCalls>>
     ELSE IF ~KnownTool(outcome.function_call.name)
     THEN /\ atool_pc' = "raised"
          /\ atool_error' = "ValueError"
          /\ UNCHANGED <<atool_result, numExecutorCalls>>
     ELSE /\ atool_pc' = "execute_tool"
          /\ numExecutorCalls' = numExecutorCalls + 1
          /\ UNCHANGED <<atool_result, atool_error>>
  /\ UNCHANGED <<max_turns, response_model, turn, contents, numGenerate>>

ExecutorExceptionEscapes(outcome) == outcome = "raise"

\* `except Exception as e: tool_response = {"error": str(e)}`: no exception of
\* the executor leaves the try statement
ExecutorExceptionPropagates(outcome) == FALSE

\* the executor completes (an exception becomes an error response), the call and
\* its response are appended to the history, and the loop goes on
ExecutorDone(outcome) ==
  /\ atool_pc = "execute_tool"
  /\ IF ExecutorExceptionPropagates(outcome)
     THEN /\ atool_pc' = "raised"
          /\ atool_error' = "ToolError"
          /\ UNCHANGED <<contents, turn, numGenerate>>
     ELSE /\ contents' = contents \o
               <<Content("model", "function_call", tool_call.name),
                 Content("user", IF outcome = "raise" THEN "error" ELSE "result",
                         tool_call.name)>>
          /\ turn' = turn + 1
          /\ LET head == TurnLoopHead(turn + 1, max_turns, numGenerate)
             IN /\ atool_pc' = head.pc
                /\ atool_error' = head.error
                /\ numGenerate' = head.numGenerate
  /\ UNCHANGED <<max_turns, response_model, tool_call, atool_result,
                 numExecutorCalls>>

toolOtherVars == <<orchVars, retrVars, nameVars, trackVars, clsVars, extVars>>

ToolNext ==
  \/ \E n \in 0..MaxTurns, rm \in BOOLEAN : AtoolCall(n, rm) /\ UNCHANGED toolOtherVars
  \/ \E o \in GenerateContentOutcomes : GenerateDone(o) /\ UNCHANGED toolOtherVars
  \/ \E o \in ToolExecutorOutcomes : ExecutorDone(o) /\ UNCHANGED toolOtherVars

\* ---------------------------------------------------------------------
\* DroidRunClient._classify_change as a function of its two arguments
\* ---------------------------------------------------------------------

\* the screens shown to the classifier: package, activity, focused element
ClassifiedScreens ==
  {<<"home", "main", "none">>, <<"home", "main", "field">>,
   <<"home", "settings", "none">>, <<"chat", "main", "none">>,
   <<"chat", "settings", "field">>}

\* UI states as _format_raw_ui_state builds them, state_id included
IdentifiedStates ==
  {[kind |-> "UIState", state_id |-> id, package |-> s[1], activity |-> s[2],
    focused_element |-> s[3], ui_elements |-> "e1"] :
     id \in {"s1", "s2"}, s \in ClassifiedScreens}

\* the fields _classify_change reads
ScreenKey(s) == <<s.package, s.activity, s.focused_element>>

NoClassification ==
  [before |-> <<>>, after |-> <<>>, state_ids |-> <<>>, change_type |-> None]

ClsInit ==
  /\ classified = NoClassification
  /\ last_classified = NoClassification

\* one call of _classify_change(before, after)
Classify(before, after) ==
  /\ last_classified' = classified
  /\ classified' = [before |-> ScreenKey(before), after |-> ScreenKey(after),
                    state_ids |-> <<before.state_id, after.state_id>>,
                    change_type |-> ClassifyChange(before, after)]

ClsNext ==
  \E before \in IdentifiedStates, after \in IdentifiedStates :
    Classify(before, after)
      /\ UNCHANGED <<orchVars, retrVars, nameVars, trackVars, toolVars, extVars>>


\* DroidRunClient.execute_command, from its last await to its return: the state read
\* after the agent's run becomes last_state (the stretches before it write nothing
\* the tracker reads)
DeviceExecuteCommand(state_after) ==
  /\ last_state' = state_after
  /\ UNCHANGED <<running, task, lifecycleVars, recent_state_changes, inferred_actions,
                 observations, action_counter, text_embeddings, nextObservationId,
                 numPolls>>

\* the tracker beside request handlers that run commands on the shared device client
TrackExecNext ==
  \/ tracking_task = 0 /\ StartBackgroundTracking /\ UNCHANGED otherVars
  \/ \E t \in TaskIds : TaskFirstStep(t) /\ UNCHANGED otherVars
  \/ \E t \in TaskIds, o \in GetStateOutcomes :
       numPolls < MaxPolls /\ DetectDone(t, o) /\ UNCHANGED otherVars
  \/ \E t \in TaskIds, o \in InferencerOutcomes : CreateDone(t, o) /\ UNCHANGED otherVars
  \/ \E t \in TaskIds : SleepDone(t) /\ UNCHANGED otherVars
  \/ \E s \in PolledStates : DeviceExecuteCommand(s) /\ UNCHANGED otherVars

\* ---------------------------------------------------------------------
\* ObservationInferencer.update_observation and the structured LLM call
\* (AsyncGenAITypedClient.acreate) it awaits
\* ---------------------------------------------------------------------

\* retry_attempts of the client built at startup (the constructor's default)
RetryAttempts == 2

\* UpdatedObservationLLMResponse: updated_observation_node is Optional[str]
UpdatedObservationNodes == {None, "", "prefers chat"}

UpdatedObservationLLMResponse(node, is_updated) ==
  [kind |-> "UpdatedObservationLLMResponse", updated_observation_node |-> node,
   is_updated |-> is_updated]

NoResponse == [kind |-> "None", updated_observation_node |-> None, is_updated |-> FALSE]

\* what one generate_content call of acreate can produce: a response the SDK has
\* parsed, text that validates against the response model, text that does not
\* (ValidationError), an empty response (ValueError), or an API exception
AcreateOutcomes ==
  {[kind |-> k, response |-> UpdatedObservationLLMResponse(n, u)] :
     k \in {"parsed", "valid_text"}, n \in UpdatedObservationNodes, u \in BOOLEAN}
    \cup {[kind |-> k, response |-> NoResponse] :
            k \in {"invalid_text", "empty", "api_error"}}

\* the exception one attempt of acreate ends with, None when it returns
AttemptException(outcome) ==
  CASE outcome.kind = "invalid_text" -> "ValidationError"
    [] outcome.kind = "empty" -> "ValueError"
    [] outcome.kind = "api_error" -> "APIError"
    [] OTHER -> None

\* retry=retry_if_exception_type(retry_on) with retry_on = ValidationError
RetryIfExceptionType(exception) == exception = "ValidationError"

\* stop=stop_after_attempt(retry_attempts)
StopAfterAttempt(attempt_number) == attempt_number >= RetryAttempts

\* `if not updated_observation_node: return None`, else a fresh observation
UpdateObservationResult(response, uuid) ==
  IF response.updated_observation_node \in {None, ""}
  THEN NoObservation
  ELSE Observation(uuid, response.updated_observation_node)

InfInit ==
  /\ inf_pc = "idle"
  /\ attempt_count = 0
  /\ last_exception = None
  /\ updated_observation_response = NoResponse
  /\ update_result = NoObservation
  /\ update_error = None
  /\ nextUuid = 1
  /\ numUpdateCalls = 0

\* update_observation(observation, actions) up to the first generate_content of
\* acreate: the first attempt of the retryer has started
UpdateObservation ==
  /\ inf_pc \in {"idle", "returned", "raised"}
  /\ inf_pc' = "generate"
  /\ numUpdateCalls' = numUpdateCalls + 1
  /\ attempt_count' = 1
  /\ last_exception' = None
  /\ updated_observation_response' = NoResponse
  /\ update_result' = NoObservation
  /\ update_error' = None
  /\ UNCHANGED nextUuid

\* generate_content of the current attempt completes: acreate returns the
\* response and update_observation runs to its end, or the attempt's exception
\* is retried after the fixed wait, or it leaves acreate and update_observation
AcreateAttemptDone(outcome) ==
  /\ inf_pc = "generate"
  /\ LET exception == AttemptException(outcome)
     IN IF exception = None
        THEN /\ updated_observation_response' = outcome.response
             /\ update_result' = UpdateObservationResult(outcome.response, nextUuid)
             /\ nextUuid' = IF update_result'.kind = "None" THEN nextUuid ELSE nextUuid + 1
             /\ inf_pc' = "returned"
             /\ UNCHANGED <<last_exception, update_error>>
        ELSE /\ last_exception' = exception
             /\ IF RetryIfExceptionType(exception) /\ ~StopAfterAttempt(attempt_count)
                THEN /\ inf_pc' = "retry_wait"
                     /\ UNCHANGED update_error
                ELSE /\ inf_pc' = "raised"
                     /\ update_error' = exception
             /\ UNCHANGED <<updated_observation_response, update_result, nextUuid>>
  /\ UNCHANGED <<attempt_count, numUpdateCalls>>

\* wait_fixed(retry_wait) is over: the next attempt starts
RetryWaitDone ==
  /\ inf_pc = "retry_wait"
  /\ inf_pc' = "generate"
  /\ attempt_count' = attempt_count + 1
  /\ UNCHANGED <<last_exception, updated_observation_response, update_result,
                 update_error, nextUuid, numUpdateCalls>>

infOtherVars == <<orchVars, retrVars, nameVars, trackVars, toolVars, clsVars, shapeVars>>

\* update_observation calls made one after the other
InfNext ==
  \/ numUpdateCalls < MaxUpdateCalls /\ UpdateObservation /\ UNCHANGED infOtherVars
  \/ \E o \in AcreateOutcomes : AcreateAttemptDone(o) /\ UNCHANGED infOtherVars
  \/ RetryWaitDone /\ UNCHANGED infOtherVars

\* ---------------------------------------------------------------------
\* find_semantically_similar with its limit and distance_metric arguments,
\* over a vector store whose rows do not change
\* ---------------------------------------------------------------------

\* default of find_semantically_similar's limit, and the limits callers pass
DefaultLimit == 5
Limits == {1, DefaultLimit}
DistanceMetrics == {"cosine", "l2"}

NoShape == [limit |-> DefaultLimit, distance_metric |-> "cosine"]

\* the rows of text_embeddings: observation text and embedding vector
StoredTexts ==
  <<[text |-> "t1", vector |-> <<1, 1>>], [text |-> "t2", vector |-> <<3, 0>>],
    [text |-> "t3", vector |-> <<0, 2>>]>>

\* embedding of each question: two unrelated questions
QueryVector(q) == IF q = "q1" THEN <<1, 0>> ELSE <<0, 1>>

\* squared euclidean distance
L2Distance(a, b) == Dot(a, a) - 2 * Dot(a, b) + Dot(b, b)

\* cosine distance of non-negative vectors, as 100 * (1 - cos^2)
CosineDistance(a, b) ==
  IF Dot(a, a) = 0 \/ Dot(b, b) = 0 THEN 100
  ELSE 100 - (100 * Dot(a, b) * Dot(a, b)) \div (Dot(a, a) * Dot(b, b))

Distance(distance_metric, a, b) ==
  IF distance_metric = "l2" THEN L2Distance(a, b) ELSE CosineDistance(a, b)

\* find_similar_texts(query_vector, limit, distance_metric): the texts of the
\* `limit` nearest rows, nearest first
FindSimilarTexts(query_vector, limit, distance_metric) ==
  LET n == Len(StoredTexts)
      d(i) == Distance(distance_metric, query_vector, StoredTexts[i].vector)
      rank(i) == 1 + Cardinality({j \in 1..n : d(j) < d(i) \/ (d(j) = d(i) /\ j < i)})
      ordered == [k \in 1..n |-> StoredTexts[CHOOSE i \in 1..n : rank(i) = k].text]
  IN SubSeq(ordered, 1, IF limit < n THEN limit ELSE n)

ShapeInit == call_shape = [c \in Callers |-> NoShape]

\* find_semantically_similar(q, limit, distance_metric) up to its first await
CallWithShape(c, q, limit, distance_metric) ==
  /\ CallFindSemanticallySimilar(c, q, FALSE)
  /\ call_shape' = [call_shape EXCEPT
                      ![c] = [limit |-> limit, distance_metric |-> distance_metric]]

\* the store answers the call with the limit and metric the call was made with
ShapedStoreOutcome(c) ==
  [kind |-> "return", error |-> None,
   results |-> FindSimilarTexts(call[c].query_vector, call_shape[c].limit,
                                call_shape[c].distance_metric)]

shapeOtherVars == <<orchVars, nameVars, trackVars, toolVars, clsVars, infVars>>

\* calls of different shapes made one after the other, cache enabled, every
\* embedding and store request succeeding
RetrShapeNext ==
  \/ \E c \in Callers, q \in Queries, l \in Limits, m \in DistanceMetrics :
       /\ numCalls < MaxCalls
       /\ NoCallInProgress
       /\ CallWithShape(c, q, l, m)
       /\ UNCHANGED shapeOtherVars
  \/ \E c \in Callers :
       /\ EmbedDone(c, [kind |-> "values", vector |-> QueryVector(call[c].query)])
       /\ UNCHANGED <<shapeOtherVars, call_shape>>
  \/ \E c \in Callers :
       StoreDone(c, ShapedStoreOutcome(c)) /\ UNCHANGED <<shapeOtherVars, call_shape>>
  \/ \E c \in Callers : Finish(c) /\ UNCHANGED <<shapeOtherVars, call_shape>>

\* ---------------------------------------------------------------------
\* Two agents calling find_semantically_similar at the same time
\* ---------------------------------------------------------------------

\* both callers may have a call in flight and interleave at the two awaits;
\* the provider embeds a question the same way every time
RetrConcurrentNext ==
  \/ \E c \in Callers, q \in Queries :
       /\ numCalls < MaxCalls
       /\ CallFindSemanticallySimilar(c, q, FALSE)
       /\ UNCHANGED <<orchVars, nameVars, trackVars, toolVars, clsVars, extVars>>
  \/ \E c \in Callers :
       /\ EmbedDone(c, [kind |-> "values", vector |-> QueryVector(call[c].query)])
       /\ UNCHANGED <<orchVars, nameVars, trackVars, toolVars, clsVars, extVars>>
  \/ \E c \in Callers, o \in {x \in FindSimilarTextsOutcomes : x.results # <<>>} :
       StoreDone(c, o) /\ UNCHANGED <<orchVars, nameVars, trackVars, toolVars, clsVars, extVars>>
  \/ \E c \in Callers : Finish(c) /\ UNCHANGED <<orchVars, nameVars, trackVars, toolVars, clsVars, extVars>>

Init ==
  /\ OrchInit /\ RetrInit /\ NameInit /\ TrackInit /\ ToolInit /\ ClsInit
  /\ InfInit /\ ShapeInit

Next ==
  \/ OrchNext \/ RetrSeqNext \/ NameNext \/ TrackNext \/ TrackRotateNext
  \/ LifecycleNext \/ ToolNext \/ ClsNext \/ RetrSimilarNext \/ RetrLongNext
  \/ CachesFullNext \/ TrackLongNext \/ TrackExecNext \/ InfNext
  \/ RetrShapeNext \/ RetrConcurrentNext

Spec == Init /\ [][Next]_vars

SpecOrchestrator == Init /\ [][OrchNext]_vars

SpecRetriever == Init /\ [][RetrSeqNext]_vars

SpecRetrieverSimilar == Init /\ [][RetrSimilarNext]_vars

SpecRetrieverLong == Init /\ [][RetrLongNext]_vars

SpecPersonName == Init /\ [][NameNext]_vars

SpecCachesFull == Init /\ [][CachesFullNext]_vars

SpecTracker == Init /\ [][TrackNext]_vars

SpecLifecycle == Init /\ [][LifecycleNext]_vars

SpecTrackerLong == Init /\ [][TrackLongNext]_vars

\* the tracker with the rotation steps enabled whenever their position is reached
SpecTrackerRotate == Init /\ [][TrackNext \/ TrackRotateNext]_vars

SpecToolCall == Init /\ [][ToolNext]_vars

SpecClassifier == Init /\ [][ClsNext]_vars

SpecTrackerExec == Init /\ [][TrackExecNext]_vars

SpecInferencer == Init /\ [][InfNext]_vars

SpecRetrieverShape == Init /\ [][RetrShapeNext]_vars

SpecRetrieverConcurrent == Init /\ [][RetrConcurrentNext]_vars

\* ---------------------------------------------------------------------
\* Properties of MainOrchestrator.run
\* ---------------------------------------------------------------------

\* C1: for every max_iterations = k >= 0 and every sequence of agent outcomes,
\* one call of run invokes ExecutionAgent.execute_command at most k times.
C1_ExecutionCallsAtMostK == execCalls <= max_iterations

C1_Witness == pc = "returned" /\ max_iterations = 3 /\ execCalls = 3

\* C2: for every max_iterations = k >= 1 one call of run invokes the retrieval
\* agent at most k times in total (initial retrieval plus at most k-1
\* re-retrievals); with k = 3 and every execution failing there are exactly 3
\* execution calls and exactly 3 retrieval calls.
C2_RetrievalCallsAtMostK ==
  /\ (pc # "idle" /\ max_iterations >= 1) => retrCalls <= max_iterations
  /\ (pc = "returned" /\ max_iterations = 3 /\ ~run_result.success)
       => (execCalls = 3 /\ retrCalls = 3)

\* C3: as soon as an execution attempt returns success=true, run returns exactly
\* that result and makes no further retrieval-agent or execution-agent call; if
\* the first execution succeeds there are zero re-retrievals (only the initial
\* retrieval) and exactly one execution-agent invocation.
C3_ReturnsOnFirstSuccess ==
  /\ [](execution_result.kind = "ExecutionLLMOutput" /\ execution_result.success
          => /\ pc = "returned"
             /\ run_result = execution_result
             /\ run_result = lastExecRaw
             /\ (iteration = 0 => execCalls = 1 /\ retrCalls = 1))
  /\ [][pc = "returned" => UNCHANGED <<execCalls, retrCalls>>]_vars

C3_Witness ==
  /\ pc = "returned" /\ run_result.success
  /\ iteration = 0 /\ execCalls = 1 /\ retrCalls = 1 /\ max_iterations = 3

\* C4: run never raises because an execution attempt failed: the step that
\* receives a failed (or unparseable) execution output does not raise, raw text
\* is wrapped as a failed ExecutionLLMOutput, and when every attempt failed run
\* returns the result of the last execution attempt it made, after having made
\* all max_iterations attempts.
C4_ReturnsLastFailedResult ==
  /\ [][(pc = "execute" /\ lastExecRaw'.kind # "raise") => pc' # "raised"]_vars
  /\ [](pc = "returned" =>
          /\ lastExecRaw.kind \in {"ExecutionLLMOutput", "str"}
          /\ (lastExecRaw.kind = "ExecutionLLMOutput" => run_result = lastExecRaw)
          /\ (lastExecRaw.kind = "str" =>
                /\ ~run_result.success
                /\ run_result.result_summary = lastExecRaw.text)
          /\ (~run_result.success => execCalls = max_iterations))

C4_Witness ==
  /\ pc = "returned" /\ lastExecRaw.kind = "str" /\ ~run_result.success
  /\ execCalls = 3

\* C5: when the execution agent's tool-call loop exhausts max_turns without a
\* final text response, run translates this into a returned failed
\* ExecutionLLMOutput (success=false) instead of letting the runtime error
\* propagate to the caller of run.
C5_ExhaustionBecomesFailedResult ==
  (lastExecRaw.kind = "raise" /\ lastExecRaw.error = "RuntimeError: exhausted max_turns")
    => /\ pc # "raised"
       /\ execution_result.kind = "ExecutionLLMOutput"
       /\ ~execution_result.success

\* C6: within one run the cumulative retrieval log only grows: previous_queries
\* carried by retrieval_state at failed iteration i+1 is previous_queries at
\* iteration i followed, in order, by the retrieval_log entries returned by the
\* re-retrieval of iteration i; no entry is removed or reordered, and a
\* retrieval whose output failed to parse leaves the log unchanged.
C6_RetrievalLogOnlyGrows ==
  [][ /\ IsPrefix(all_previous_queries, all_previous_queries')
      /\ (pc = "execute" /\ pc' = "re_retrieve" /\ iteration >= 1)
           => retrieval_state'.previous_queries =
                retrieval_state.previous_queries \o
                  (IF retrieval_result.kind = "None" THEN <<>>
                   ELSE retrieval_result.retrieval_log)
      /\ (retrCalls' # retrCalls /\ pc' # "raised" /\ retrieval_result'.kind = "None")
           => all_previous_queries' = all_previous_queries
      /\ (retrCalls' # retrCalls /\ pc' # "raised" /\ retrieval_result'.kind # "None")
           => all_previous_queries' =
                all_previous_queries \o retrieval_result'.retrieval_log ]_vars

C6_Witness ==
  /\ pc = "re_retrieve" /\ iteration = 2
  /\ retrieval_result.kind = "None"
  /\ Len(retrieval_state.previous_queries) >= 3
  /\ retrieval_state.previous_queries[1] # retrieval_state.previous_queries[2]

\* ---------------------------------------------------------------------
\* Properties of MemoryRetriever.find_semantically_similar
\* ---------------------------------------------------------------------

FailedEmbedOutcomes == {"none_values", "no_embeddings", "api_error"}

C8_SemanticHitSkipsVectorStore ==
  \A c \in Callers :
    (call[c].pc # "idle" /\ ~call[c].disable_cache /\ call[c].semantic_cache_result.hit)
    => /\ call[c].embedCalls = 1
       /\ call[c].storeCalls = 0
       /\ call[c].pc = "returned"
       /\ call[c].result = call[c].semantic_cache_result.results
       /\ InCache(exact_cache, call[c].query)
       /\ CacheGet(exact_cache, call[c].query) = call[c].semantic_cache_result.results

\* C9: a call with disable_cache=true bypasses both cache tiers: it always calls
\* the embedding provider and, if a vector is returned, the vector store; it
\* never returns a cached value; it leaves the exact cache and the semantic
\* cache unchanged (contents and order).
C9_DisableCacheBypassesBothTiers ==
  /\ [](\A c \in Callers :
          (call[c].pc # "idle" /\ call[c].disable_cache)
          => /\ call[c].embedCalls = 1
             /\ call[c].via \notin {"exact_cache", "semantic_cache"}
             /\ (call[c].embedOutcome = "values" => call[c].storeCalls = 1)
             /\ (call[c].embedOutcome \in FailedEmbedOutcomes => call[c].storeCalls = 0)
             /\ (call[c].pc = "returned" => call[c].via \in {"vector_store", "embed_failed"}))
  /\ [][(\E c \in Callers : call'[c].disable_cache /\ call'[c] # call[c])
          => UNCHANGED <<exact_cache, semantic_cache>>]_vars

C9_Witness ==
  \E c \in Callers :
    /\ call[c].disable_cache /\ call[c].pc = "returned" /\ call[c].via = "vector_store"
    /\ InCache(exact_cache, call[c].query)
    /\ CacheGet(exact_cache, call[c].query) # call[c].result
    /\ semantic_cache # <<>>

\* C10: if the embedding provider fails for a find_semantically_similar call,
\* the call returns an empty list and does not raise; the vector store is not
\* queried by that call.
C10_EmbeddingFailureReturnsEmpty ==
  \A c \in Callers :
    call[c].embedOutcome \in FailedEmbedOutcomes
    => /\ call[c].pc = "returned"
       /\ call[c].result = <<>>
       /\ call[c].storeCalls = 0

\* ---------------------------------------------------------------------
\* Properties of MemoryRetriever.find_person_by_name
\* ---------------------------------------------------------------------

\* C11: every key of the person-name cache equals lower(trim(name)) of the name it
\* was inserted for, and a find_person_by_name call made while the normalised form
\* of its name is a key of the cache returns the cached value, which is what the
\* latest completed lookup of that normalised name returned, without a backend call.
C11_NormalisedKeyHitIsFree ==
  [][/\ \A i \in 1..Len(person_name_cache') :
          person_name_cache'[i].key = Lower(Strip(person_name_cache'[i].name))
     /\ \A c \in Callers :
          (/\ pcall[c].pc = "idle"
           /\ pcall'[c].pc # "idle"
           /\ InCache(person_name_cache, Lower(Strip(pcall'[c].name))))
          => /\ pcall'[c].pc = "returned"
             /\ pcall'[c].backendCalls = 0
             /\ lastPersonResult[Lower(Strip(pcall'[c].name))].known
             /\ pcall'[c].result =
                  lastPersonResult[Lower(Strip(pcall'[c].name))].results]_vars

\* a second spelling of a cached name was answered from the cache
C11_Witness ==
  \E c \in Callers :
    /\ pcall[c].pc = "returned"
    /\ pcall[c].backendCalls = 0
    /\ pcall[c].name = <<"A", " ">>
    /\ pcall[c].result = <<"p2", "p1">>
    /\ \E i \in 1..Len(person_name_cache) :
         /\ person_name_cache[i].key = <<"a">>
         /\ person_name_cache[i].name = <<" ", "a">>

\* ---------------------------------------------------------------------
\* Properties of the ObservationTracker
\* ---------------------------------------------------------------------

SameScreen(a, b) ==
  /\ a.package = b.package
  /\ a.activity = b.activity
  /\ a.focused_element = b.focused_element

\* C14: no record of the state-changes deque has change_type NO_CHANGE, and a poll
\* whose state is classified NO_CHANGE against the last known state (or that has no
\* last known state) appends nothing to either deque, leaves the action counter
\* alone and keeps last_state's package, activity and focused element.
C14_NoChangeIsNeverRecorded ==
  [][/\ \A i \in 1..Len(recent_state_changes') :
          recent_state_changes'[i].change_type \in {"APP_SWITCH", "CHANGED"}
     /\ \A t \in TaskIds :
          (/\ numPolls' = numPolls + 1
           /\ task[t].pc = "detect"
           /\ task'[t].pc # "detect"
           /\ task'[t].current_state.kind # "None"
           /\ (last_state.kind = "None"
                 \/ SameScreen(last_state, task'[t].current_state)))
          => /\ recent_state_changes' = recent_state_changes
             /\ inferred_actions' = inferred_actions
             /\ action_counter' = action_counter
             /\ last_state.kind # "None" => SameScreen(last_state', last_state)]_vars

\* after two recorded changes a third poll found the same package, activity and
\* focused element with other ui_elements, and nothing was recorded
C14_Witness ==
  \E t \in TaskIds :
    /\ task[t].pc = "sleep_poll"
    /\ numPolls = 3
    /\ Len(recent_state_changes) = 2
    /\ action_counter = 2
    /\ SameScreen(last_state, task[t].current_state)
    /\ last_state # task[t].current_state

\* a full deque that changed without being cleared lost exactly its oldest entry
DroppedOldest(before, after, maxlen) ==
  (Len(before) = maxlen /\ after # before /\ after # <<>>)
  => /\ Len(after) = maxlen
     /\ SubSeq(after, 1, maxlen - 1) = Tail(before)

\* one entry was appended, at the cost of the oldest entry if the deque was full
AppendedTo(before, after, maxlen) ==
  /\ Len(after) >= 1
  /\ SubSeq(after, 1, Len(after) - 1) =
       IF Len(before) = maxlen THEN Tail(before) ELSE before

\* C13: in every reachable state the observations deque holds at most 20 entries,
\* the inferred-actions deque at most 50 and the state-changes deque at most 10,
\* and an append to a full deque drops exactly the oldest entry and keeps the new one.
C13_DequesAreBounded ==
  [][/\ Len(observations') <= 20
     /\ Len(inferred_actions') <= 50
     /\ Len(recent_state_changes') <= 10
     /\ DroppedOldest(observations, observations', 20)
     /\ DroppedOldest(inferred_actions, inferred_actions', 50)
     /\ DroppedOldest(recent_state_changes, recent_state_changes', 10)
     /\ (last_state' # last_state)
          => /\ AppendedTo(recent_state_changes, recent_state_changes', 10)
             /\ recent_state_changes'[Len(recent_state_changes')].after = last_state'
             /\ AppendedTo(inferred_actions, inferred_actions', 50)]_vars

\* the 51st recorded change has pushed the first one out of both deques
C13_Witness ==
  /\ numPolls = 51
  /\ Len(inferred_actions) = 50
  /\ Len(recent_state_changes) = 10
  /\ inferred_actions[1].source_change_type = "APP_SWITCH"
  /\ inferred_actions[50].source_change_type = "APP_SWITCH"

\* C16: _save_observation(new) on an empty observations deque persists nothing,
\* does not fail and leaves the deque holding exactly new; so the first inference
\* of a fresh tracker that yields an observation leaves one observation.
C16_SaveOnEmptyDequeAppends ==
  [][\A t \in TaskIds :
       (/\ task[t].pc = "create_obs"
        /\ nextObservationId' # nextObservationId
        /\ observations = <<>>)
       => /\ observations' = <<task'[t].new_observation>>
          /\ task'[t].pc # "sleep_backoff"
          /\ text_embeddings' = text_embeddings]_vars

\* Line 289 is the only append to the observations deque and follows the tail read
\* of line 276, so a tracker that starts empty never holds an observation and never
\* writes an embedding row.
ObservationsStayEmpty ==
  /\ observations = <<>>
  /\ text_embeddings = {}
  /\ \A t \in TaskIds : task[t].pc \notin {"update_obs", "save_embed"}

\* C18: when stop_tracking returns, the state-changes deque, the inferred-actions
\* deque and the observations deque are all empty.
C18_StopLeavesDequesEmpty ==
  [][\A h \in StopHandlers :
       (stopper[h].pc # "returned" /\ stopper'[h].pc = "returned")
       => /\ recent_state_changes' = <<>>
          /\ inferred_actions' = <<>>
          /\ observations' = <<>>]_vars

\* C19: start_background_tracking fails and launches nothing while the tracked
\* task is running, and at most one loop task is alive at any time.
C19_AtMostOneLoopTask ==
  [][/\ (/\ numStarts' = numStarts + 1
          /\ tracking_task # 0
          /\ task[tracking_task].pc \notin {"finished", "cancelled"})
         => (lastStart' = "RuntimeError" /\ task' = task)
     /\ Cardinality({t \in TaskIds :
                       task'[t].pc \notin {"none", "finished", "cancelled"}}) <= 1]_vars

\* C20: an exception inside an iteration sends the loop to its back-off sleep,
\* after which the next iteration runs; the loop ends only at a loop test that
\* finds running false, or by cancellation from stop_tracking.
C20_LoopSurvivesErrors ==
  [][\A t \in TaskIds :
       /\ (task[t].pc \in {"detect", "create_obs", "update_obs", "save_embed"}
             /\ task'[t].pc \notin {task[t].pc, "cancelled"})
            => task'[t].pc \in {"sleep_short", "sleep_poll", "sleep_backoff",
                                "create_obs", "update_obs", "save_embed"}
       /\ (task'[t].lastError # task[t].lastError) => task'[t].pc = "sleep_backoff"
       /\ (task[t].pc = "sleep_backoff" /\ task'[t].pc # "sleep_backoff")
            => \/ task'[t].pc = "detect" /\ running
               \/ task'[t].pc = "finished" /\ ~running
               \/ task'[t].pc = "cancelled"
       /\ (task[t].pc # "finished" /\ task'[t].pc = "finished") => ~running
       /\ (task[t].pc # "cancelled" /\ task'[t].pc = "cancelled")
            => \E h \in StopHandlers :
                 /\ stopper[h].pc \in {"wait_for", "timed_out"}
                 /\ stopper'[h].pc \in {"timed_out", "returned"}]_vars

\* a loop that caught a device error and a failed save is polling again
C20_Witness ==
  \E t \in TaskIds :
    /\ task[t].pc = "detect"
    /\ task[t].lastError = "IndexError"
    /\ numPolls = 3
    /\ running


\* C29: every inference attempt that ends (an observation created, nothing
\* inferred, or the inference or save step raising) leaves the action counter at
\* 0, and the counter never exceeds action_context_size.
C29_CounterResetAfterEveryAttempt ==
  [][/\ \A t \in TaskIds :
          (task[t].pc = "create_obs"
             /\ task'[t].pc \in {"sleep_short", "sleep_backoff"})
            => action_counter' = 0
     /\ action_counter' <= ActionContextSize]_vars


\* ---------------------------------------------------------------------
\* Properties of atool_call
\* ---------------------------------------------------------------------

\* C22: one atool_call with max_turns = n makes at most n generate_content calls
\* and at most n executor invocations; the loop goes on only after a function
\* call, so the call returns at the first response that is a final text; and
\* when all n responses were function calls it raises RuntimeError after the
\* n-th one without another model call.
C22_TurnBudget ==
  /\ numGenerate <= max_turns
  /\ numExecutorCalls <= max_turns
  /\ (atool_pc = "generate" /\ turn > 0) => ~IsFinalText(tool_call)
  /\ atool_pc = "execute_tool" => ~IsFinalText(tool_call)
  /\ atool_pc = "returned"
       => /\ IsFinalText(tool_call)
          /\ numGenerate = turn + 1
          /\ numExecutorCalls = turn
          /\ Len(contents) = 2 * turn + 1
  /\ (atool_pc # "idle" /\ turn = max_turns)
       => /\ atool_pc = "raised"
          /\ atool_error = "RuntimeError"
          /\ numGenerate = max_turns
          /\ numExecutorCalls = max_turns
  /\ atool_error = "RuntimeError" => turn = max_turns

\* three turns of function calls used up the budget of three
C22_Witness ==
  /\ atool_pc = "raised"
  /\ atool_error = "RuntimeError"
  /\ max_turns = 3
  /\ numGenerate = 3
  /\ numExecutorCalls = 3

\* C23: a function call naming a tool that is not a key of tool_executors makes
\* atool_call raise at once: no executor is invoked for it and no further
\* generate_content call is made.
C23_UnknownToolFailsFast ==
  [][(tool_call'.kind = "function_call"
        /\ tool_call'.name \notin ToolExecutors \cup {None})
       => /\ atool_pc' = "raised"
          /\ atool_error' = "ValueError"
          /\ numExecutorCalls' = numExecutorCalls
          /\ numGenerate' = numGenerate]_vars

\* the second response of a call named an unknown tool
C23_Witness ==
  /\ atool_error = "ValueError"
  /\ tool_call.name = "unknown_tool"
  /\ turn = 1
  /\ numGenerate = 2
  /\ numExecutorCalls = 1


\* ---------------------------------------------------------------------
\* Properties of the state-change classifier
\* ---------------------------------------------------------------------

\* C28: every call of _classify_change returns one of the three change types:
\* APP_SWITCH exactly when the packages differ, NO_CHANGE exactly when package,
\* activity and focused element are all equal, CHANGED otherwise; two calls with
\* the same package, activity and focused element on both sides return the same
\* value whatever the state ids and whatever was classified before.
C28_ClassifierIsTotalAndDeterministic ==
  classified.change_type # None
    => /\ classified.change_type \in {"APP_SWITCH", "NO_CHANGE", "CHANGED"}
       /\ (classified.change_type = "APP_SWITCH")
            <=> (classified.before[1] # classified.after[1])
       /\ (classified.change_type = "NO_CHANGE")
            <=> (/\ classified.before[1] = classified.after[1]
                 /\ classified.before[2] = classified.after[2]
                 /\ classified.before[3] = classified.after[3])
       /\ (/\ last_classified.before = classified.before
           /\ last_classified.after = classified.after)
            => last_classified.change_type = classified.change_type

\* the same pair of screens classified twice under different state ids, with only
\* the focused element differing between before and after
C28_Witness ==
  /\ classified.change_type = "CHANGED"
  /\ last_classified.change_type = "CHANGED"
  /\ classified.before = last_classified.before
  /\ classified.after = last_classified.after
  /\ classified.state_ids = <<"s1", "s2">>
  /\ last_classified.state_ids = <<"s2", "s2">>
  /\ classified.before[1] = classified.after[1]
  /\ classified.before[2] = classified.after[2]


\* ---------------------------------------------------------------------
\* Properties of the retriever's caches
\* ---------------------------------------------------------------------

\* cosine similarity of a and b is at least 0.70, with neither norm zero
Similar70(a, b) ==
  /\ Dot(a, a) # 0
  /\ Dot(b, b) # 0
  /\ Dot(a, b) > 0
  /\ 100 * Dot(a, b) * Dot(a, b) >= 49 * Dot(a, a) * Dot(b, b)

\* C24: whenever a call returns a value taken from the semantic cache, the value
\* is the result list of a cached entry whose vector has cosine similarity >= 0.70
\* with the query vector, neither vector has zero norm, and every entry inserted
\* after that one is below the threshold.
C24_SemanticHitIsNewestAboveThreshold ==
  [][\A c \in Callers :
       (/\ call[c].pc = "embed"
        /\ call'[c].pc = "returned"
        /\ call'[c].via = "semantic_cache")
         => \E i \in 1..Len(semantic_cache) :
              /\ Similar70(call'[c].query_vector, semantic_cache[i].vector)
              /\ call'[c].result = semantic_cache[i].results
              /\ \A j \in (i + 1)..Len(semantic_cache) :
                   ~Similar70(call'[c].query_vector, semantic_cache[j].vector)]_vars

\* two cached entries with different results both qualify for the query vector
\* <<1, 1>>, and the call returned the results of the newer one
C24_Witness ==
  \E c \in Callers :
    /\ call[c].pc = "returned"
    /\ call[c].via = "semantic_cache"
    /\ Len(semantic_cache) = 2
    /\ Similar70(call[c].query_vector, semantic_cache[1].vector)
    /\ Similar70(call[c].query_vector, semantic_cache[2].vector)
    /\ semantic_cache[1].results # semantic_cache[2].results
    /\ call[c].result = semantic_cache[2].results


\* the keys of an OrderedDict, in its order
Keys(cache) == [i \in 1..Len(cache) |-> cache[i].key]

Without(seq, k) == SelectSeq(seq, LAMBDA x : x # k)

\* a call with the cache enabled returns a value (hit or vector-store answer)
ReturnsValue(c) ==
  /\ call[c].pc # "returned"
  /\ call'[c].pc = "returned"
  /\ call'[c].via \in {"exact_cache", "semantic_cache", "vector_store"}
  /\ ~call'[c].disable_cache

\* C26: the exact cache's order is recency order. Every call that returns a value
\* with the cache enabled (exact hit, or insert/overwrite after a semantic hit or a
\* vector-store answer) leaves its query as the last key and keeps the other keys
\* in their order; when that makes 51 keys the first key, the least recently used,
\* is the one removed; and the cache changes in no other step.
C26_ExactCacheIsLRU ==
  [][/\ \A c \in Callers :
          ReturnsValue(c)
            => LET q == call'[c].query
                   promoted == Without(Keys(exact_cache), q) \o <<q>>
               IN Keys(exact_cache') =
                    IF Len(promoted) > 50 THEN Tail(promoted) ELSE promoted
     /\ (exact_cache' # exact_cache) => \E c \in Callers : ReturnsValue(c)]_vars

\* question 1 was hit before the cache overflowed: the 51st question evicted
\* question 2 and question 1 is still cached
C26_Witness ==
  /\ Len(exact_cache) = 50
  /\ InCache(exact_cache, LongQuery(1))
  /\ ~InCache(exact_cache, LongQuery(2))
  /\ exact_cache[50].key = LongQuery(51)

C25_CachesAreBounded ==
  /\ Len(exact_cache) <= 50
  /\ Cardinality({exact_cache[i].key : i \in 1..Len(exact_cache)}) = Len(exact_cache)
  /\ Len(semantic_cache) <= 10
  /\ Len(person_name_cache) <= 50
  /\ Cardinality({person_name_cache[i].key : i \in 1..Len(person_name_cache)})
       = Len(person_name_cache)

\* all three caches are full and have evicted, with overlapping calls of both
\* callers behind them and a name lookup still in flight
C25_Witness ==
  /\ Len(exact_cache) = 50
  /\ ~InCache(exact_cache, LongQuery(2))
  /\ Len(semantic_cache) = 10
  /\ Len(person_name_cache) = 50
  /\ ~InCache(person_name_cache, PersonCacheKey(LongName(1)))
  /\ call[2].pc = "returned"
  /\ pcall[2].pc = "backend"


\* C31: when a tool executor finishes, by returning or by raising, atool_call
\* does not raise because of it: the model's function call and then the tool's
\* response (an error response for an exception) are appended to the
\* conversation, the turn is used up, and the loop goes to its next turn, or to
\* the RuntimeError after the last one.
C31_ExecutorErrorsGoBackToTheModel ==
  [][(atool_pc = "execute_tool" /\ atool_pc' # "execute_tool")
       => /\ Len(contents') = Len(contents) + 2
          /\ SubSeq(contents', 1, Len(contents)) = contents
          /\ contents'[Len(contents) + 1] =
               [role |-> "model", part |-> "function_call", name |-> tool_call.name]
          /\ contents'[Len(contents) + 2].role = "user"
          /\ contents'[Len(contents) + 2].part \in {"result", "error"}
          /\ contents'[Len(contents) + 2].name = tool_call.name
          /\ turn' = turn + 1
          /\ \/ atool_pc' = "generate" /\ turn' < max_turns
                  /\ numGenerate' = numGenerate + 1
             \/ atool_pc' = "raised" /\ atool_error' = "RuntimeError"
                  /\ turn' = max_turns /\ numGenerate' = numGenerate]_vars

\* an executor raised in the first turn, the model was told and called a tool
\* again, and the third response was the final text
C31_Witness ==
  /\ atool_pc = "returned"
  /\ turn = 2
  /\ Len(contents) = 5
  /\ contents[3].part = "error"
  /\ contents[5].part = "result"


\* ---------------------------------------------------------------------
\* Further properties of MainOrchestrator.run
\* ---------------------------------------------------------------------

\* C40: run leaves by raising only when an agent call raised: in every other case,
\* max_iterations = 0 included, it returns an ExecutionLLMOutput.
C40_RunReturnsUnlessAnAgentRaises ==
  /\ pc = "raised" => run_error \in {e.error : e \in AtoolCallErrors}
  /\ pc = "returned" => run_result.kind = "ExecutionLLMOutput"


\* C39: every retrieval-agent invocation of run, the initial one included, runs with
\* retrieval_agent_max_turns, and every execution-agent invocation with
\* execution_agent_max_turns.
C39_AgentsRunWithTheGivenBudgets ==
  [][/\ retrCalls' # retrCalls => retrieval_turns' = retrieval_agent_max_turns
     /\ execCalls' # execCalls => execution_turns' = execution_agent_max_turns]_vars


\* C37: when stop_tracking has returned, the running flag is false, no loop task is
\* alive and the task reference is cleared, whatever the interleaving with a
\* preceding start (stop before the new task's first step included).
C37_StopLeavesTrackerStopped ==
  \A h \in StopHandlers :
    stopper[h].pc = "returned" =>
      /\ ~running
      /\ tracking_task = 0
      /\ \A t \in TaskIds : task[t].pc = "none" \/ Done(t)


\* C38: consecutive records of the state-changes deque chain: the later record's
\* before state has the package, activity and focused element of the earlier
\* record's after state, also when execute_command runs between two polls.
C38_StateChangesFormAChain ==
  \A i \in 1..(Len(recent_state_changes) - 1) :
    SameScreen(recent_state_changes[i + 1].before, recent_state_changes[i].after)


\* ---------------------------------------------------------------------
\* Properties of update_observation and acreate
\* ---------------------------------------------------------------------

\* C32: update_observation returns an observation only when the LLM response has
\* is_updated = true and a non-null node; with is_updated = false or a null node
\* it returns None.
C32_UpdatedOnlyWhenFlaggedAndNodeGiven ==
  (inf_pc = "returned" /\ update_result.kind # "None")
    => /\ updated_observation_response.is_updated
       /\ updated_observation_response.updated_observation_node # None

\* C34: an error leaves acreate only after the final attempt: every failed attempt
\* before it, one that raised ValueError for an empty response included, is retried.
C34_ErrorOnlyAfterFinalAttempt ==
  inf_pc = "raised" => attempt_count = RetryAttempts

\* ---------------------------------------------------------------------
\* Further properties of the MemoryRetriever's caches
\* ---------------------------------------------------------------------

\* C35: a value find_semantically_similar returns from a cache equals what the
\* vector store returns for the same query, limit and distance metric.
C35_CachedValueMatchesTheCallShape ==
  \A c \in Callers :
    (call[c].pc = "returned" /\ call[c].via \in {"exact_cache", "semantic_cache"})
      => call[c].result = FindSimilarTexts(QueryVector(call[c].query),
                                           call_shape[c].limit,
                                           call_shape[c].distance_metric)

\* C36: the semantic cache never holds two entries with the same query vector,
\* also when two calls for the same query interleave at their awaits.
C36_NoDuplicateVectorInSemanticCache ==
  \A i \in 1..Len(semantic_cache) : \A j \in 1..Len(semantic_cache) :
    i # j => semantic_cache[i].vector # semantic_cache[j].vector

====
